---------------------------- MODULE Spec2Model ----------------------------
(***************************************************************************)
(* Model of the MCP-Telegram bridge (utils/mcp_telegram_bridge.py), of the *)
(* Telegram rate limiter (utils/telegram_manager.py) and of the message    *)
(* chunker (utils/message_chunker.py).                                     *)
(*                                                                         *)
(* The bridge runs on one asyncio event loop: a coroutine runs without     *)
(* interruption from one suspension point to the next.  Each action below  *)
(* is one such uninterrupted stretch of a coroutine; the suspension points *)
(* are the transport calls (HTTP requests of TelegramBotManager) and the   *)
(* asyncio.sleep calls.  An await of a coroutine that never reaches one of *)
(* these does not suspend and stays inside the action.                     *)
(***************************************************************************)
EXTENDS Integers, Sequences, FiniteSets, TLC

(***************************************************************************)
(* Bounds of the model.                                                    *)
(***************************************************************************)
NumSessionIds == 2   \* session ids the callers use: 1..NumSessionIds
NumChats      == 2   \* chat ids seen in sessions and inbound messages
NumCallIds    == 1   \* mcp_call_id values the callers use
MaxCap        == 2   \* configured max_concurrent_sessions ranges over 1..MaxCap
MaxTimeout    == 1   \* configured session_timeout_minutes ranges over 1..MaxTimeout
MaxTime       == 2   \* the clock (in minutes) runs 0..MaxTime
MaxChunks     == 4   \* a message yields 0..MaxChunks content chunks
MaxMsgs       == 5   \* transport message ids the Telegram server hands out
MaxUpdates    == 1   \* inbound updates the Telegram server holds
MaxStored     == 2   \* inbound updates the server holds when replies follow each other
MaxSends      == 1   \* send_mcp_message_to_telegram calls in flight
MaxEnds       == 2   \* caller end_session calls in flight
MaxStarts     == 1   \* start() calls in flight
MaxTasks      == 1   \* background tasks of each kind alive
MaxStarted    == 2   \* background tasks of each kind alive when start() is repeated
MaxRequests   == 2   \* configured max_requests ranges over 1..MaxRequests
MaxWindow     == 2   \* configured time_window (seconds) ranges over 1..MaxWindow
TicksPerSecond == 2  \* resolution of time.time(): clock ticks in one second
MaxClock      == 5   \* time.time() (in clock ticks) runs 0..MaxClock
NumCallers    == 2   \* tasks calling TelegramRateLimiter.acquire
MaxTextLen    == 5   \* plain texts given to the chunker have 0..MaxTextLen characters
MaxSize       == 3   \* max_chunk_size for plain texts ranges over 1..MaxSize
MaxPieces     == 7   \* texts with code are made of 0..MaxPieces fences and characters
MinCodeSize   == 8   \* max_chunk_size for texts with code: MinCodeSize..MaxCodeSize
MaxCodeSize   == 9
MaxDetectLen  == 5   \* classified texts are made of 0..MaxDetectLen pieces
DecorSize     == 100 \* max_chunk_size of the chunker whose messages are decorated
MaxRun        == 310 \* the decorated messages come from a word of 0..MaxRun characters
RecursionLimit == 3  \* nested send_message calls the interpreter allows

SessionIds == 1..NumSessionIds
ChatIds    == 1..NumChats
CallIds    == 1..NumCallIds
Messages   == 0..MaxChunks
NoRef      == 0

VARIABLES
  status,                   \* BridgeStatus
  is_running,
  max_concurrent_sessions,  \* configuration, fixed at construction
  session_timeout_minutes,  \* configuration, fixed at construction
  active_sessions,          \* insertion-ordered dict: sequence of [session_id, ref]
  heap,                     \* sequence of the TelegramSession objects still referenced
  message_correlation,      \* telegram message id -> chunk call id
  pending_feedback,         \* session id -> feedback data
  now,                      \* datetime.now(), in minutes
  tg_next,                  \* last message id the Telegram server assigned
  updates,                  \* updates held by the Telegram server (never confirmed)
  sends,                    \* send_mcp_message_to_telegram calls in flight
  ends,                     \* caller end_session calls suspended in the notification
  cleaners,                 \* _session_cleanup_task instances alive
  pollers,                  \* _telegram_polling_task instances alive
  starting,                 \* start() calls suspended in test_connection
  ev                        \* what the last step did, and what it returned

\* TelegramRateLimiter
VARIABLES
  max_requests,             \* configuration
  time_window,              \* configuration
  requests,                 \* self.requests: the tracked timestamps
  lock,                     \* self._lock: the caller holding it, or 0
  clock,                    \* time.time(), in ticks of 1/TicksPerSecond seconds
  callers,                  \* where each caller is inside acquire()
  admitted,                 \* per timestamp, the acquire() calls that returned True
  senders                   \* where each caller is inside send_message()

limiterVars == <<max_requests, time_window, requests, lock, clock, callers, admitted,
                 senders>>

\* MessageChunker (utils/message_chunker.py) and one call of its functions
VARIABLES
  content,                  \* the text handed to the function called
  max_chunk_size,           \* configuration
  preserve_code_blocks,     \* configuration
  called,                   \* the function that has been applied, "none" before
  returned                  \* what it returned

chunkerVars == <<content, max_chunk_size, preserve_code_blocks, called, returned>>

bridgeVars == <<status, is_running, max_concurrent_sessions, session_timeout_minutes,
                active_sessions, heap, message_correlation, pending_feedback, now,
                tg_next, updates, sends, ends, cleaners, pollers, starting, ev>>

(***************************************************************************)
(* Python dict helpers.  active_sessions keeps insertion order because     *)
(* handle_telegram_response takes the first session whose chat id matches. *)
(***************************************************************************)
Keys(d) == {d[k].session_id : k \in DOMAIN d}

Lookup(d, sid) ==
  IF sid \in Keys(d)
  THEN (CHOOSE k \in DOMAIN d : d[k].session_id = sid)
  ELSE 0

Get(d, sid) == IF sid \in Keys(d) THEN d[Lookup(d, sid)].ref ELSE NoRef

DictSet(d, sid, r) ==
  IF sid \in Keys(d)
  THEN [d EXCEPT ![Lookup(d, sid)].ref = r]
  ELSE Append(d, [session_id |-> sid, ref |-> r])

DictDel(d, sid) == SelectSeq(d, LAMBDA e : e.session_id # sid)

Refs(d) == {d[k].ref : k \in DOMAIN d}

Without(f, S) == [x \in (DOMAIN f \ S) |-> f[x]]

Put(f, k, v) == [x \in (DOMAIN f \cup {k}) |-> IF x = k THEN v ELSE f[x]]

Range(s) == {s[k] : k \in DOMAIN s}

RemoveAt(s, k) == [j \in 1..(Len(s) - 1) |-> IF j < k THEN s[j] ELSE s[j + 1]]

(***************************************************************************)
(* TelegramSession objects live on a heap so that a coroutine suspended    *)
(* with a reference to a session sees later changes of that object, also   *)
(* after the object left active_sessions.  A reference is an index into    *)
(* heap.  Commit drops the objects nothing refers to and numbers the rest  *)
(* in the order active_sessions, sends, ends, cleaners reach them, so that *)
(* one program state has one representation.                               *)
(***************************************************************************)
NewRef(h) == Len(h) + 1

RECURSIVE Flatten(_)
Flatten(ss) == IF ss = <<>> THEN <<>> ELSE Head(ss) \o Flatten(Tail(ss))

\* the references of s in the order of their first occurrence
Dedup(s) ==
  LET first == SelectSeq([i \in DOMAIN s |-> i],
                         LAMBDA i : s[i] # NoRef /\ \A j \in 1..(i - 1) : s[j] # s[i])
  IN [k \in DOMAIN first |-> s[first[k]]]

RefOrder(as, sn, en, cl) ==
  Dedup([k \in DOMAIN as |-> as[k].ref] \o [k \in DOMAIN sn |-> sn[k].ref]
        \o [k \in DOMAIN en |-> en[k].ref] \o [k \in DOMAIN cl |-> cl[k].end_ref]
        \o Flatten([k \in DOMAIN cl |-> cl[k].scanned]))

\* (\E x \in {e} : ... binds x to the value of e, computed once.)
CommitOrder(order, as, h, sn, en, cl) ==
  \E inv \in {[r \in Range(order) \cup {NoRef} |->
                 IF r = NoRef THEN NoRef ELSE CHOOSE i \in DOMAIN order : order[i] = r]} :
     /\ active_sessions' = [k \in DOMAIN as |-> [as[k] EXCEPT !.ref = inv[@]]]
     /\ heap' = [i \in DOMAIN order |-> h[order[i]]]
     /\ sends' = [k \in DOMAIN sn |-> [sn[k] EXCEPT !.ref = inv[@]]]
     /\ ends' = [k \in DOMAIN en |-> [en[k] EXCEPT !.ref = inv[@]]]
     /\ cleaners' = [k \in DOMAIN cl |->
                       [cl[k] EXCEPT !.end_ref = inv[@],
                                     !.scanned = [j \in DOMAIN cl[k].scanned |-> inv[cl[k].scanned[j]]]]]

Commit(as, h, sn, en, cl) ==
  \E v \in {[as |-> as, h |-> h, sn |-> sn, en |-> en, cl |-> cl]} :
  \E order \in {RefOrder(v.as, v.sn, v.en, v.cl)} :
    IF order = [i \in 1..Len(v.h) |-> i]
    THEN /\ active_sessions' = v.as
         /\ heap' = v.h
         /\ sends' = v.sn
         /\ ends' = v.en
         /\ cleaners' = v.cl
    ELSE CommitOrder(order, v.as, v.h, v.sn, v.en, v.cl)

NewSession(chat, t) ==
  [chat_id |-> chat, start_time |-> t, last_activity |-> t, active_mcp_calls |-> {}]

is_expired(session, t, timeout_minutes) == t - session.last_activity > timeout_minutes

update_activityReset(h, r, t) == [h EXCEPT ![r].last_activity = 0]

\* Lines 96-98: self.last_activity = datetime.now()
update_activity(h, r, t) == [h EXCEPT ![r].last_activity = t]

Event(op, sid, ok, ids, req) == [op |-> op, sid |-> sid, ok |-> ok, ids |-> ids, req |-> req]


(***************************************************************************)
(* State after MCPTelegramBridge.__init__.  The two limits come from the   *)
(* config dictionary; the session's project_directory, user_context and    *)
(* pending_responses are never read by the operations below and are left   *)
(* out.                                                                    *)
(***************************************************************************)
EmptyMap == [x \in {} |-> 0]

BridgeInit ==
  /\ status = "disconnected"
  /\ is_running = FALSE
  /\ max_concurrent_sessions \in 1..MaxCap
  /\ session_timeout_minutes \in 1..MaxTimeout
  /\ active_sessions = <<>>
  /\ heap = <<>>
  /\ message_correlation = EmptyMap
  /\ pending_feedback = EmptyMap
  /\ now = 0
  /\ tg_next = 0
  /\ updates = <<>>
  /\ sends = <<>>
  /\ ends = <<>>
  /\ cleaners = <<>>
  /\ pollers = <<>>
  /\ starting = 0
  /\ ev = Event("init", 0, TRUE, <<>>, FALSE)

(***************************************************************************)
(* create_session.  The cap test and the insertion are not separated by an *)
(* await.  _send_session_notification follows the insertion: it issues a   *)
(* transport request when the bridge is connected (ev.req) and changes no  *)
(* bridge state, so the call is modelled at the insertion.                 *)
(***************************************************************************)
AtCapacityNever(n, max) == FALSE

AtCapacityAbove(n, max) == n > max

\* Line 265: len(self.active_sessions) >= self.max_concurrent_sessions
AtCapacity(n, max) == n >= max

CreateSession(sid, chat) ==
  /\ UNCHANGED <<limiterVars, chunkerVars>>
  /\ IF AtCapacity(Len(active_sessions), max_concurrent_sessions)
     THEN /\ ev' = Event("create_session", sid, FALSE, <<>>, FALSE)
          /\ UNCHANGED <<active_sessions, heap, sends, ends, cleaners>>
     ELSE /\ Commit(DictSet(active_sessions, sid, NewRef(heap)),
                    Append(heap, NewSession(chat, now)), sends, ends, cleaners)
          /\ ev' = Event("create_session", sid, TRUE, <<>>, status = "connected")
  /\ UNCHANGED <<status, is_running, max_concurrent_sessions, session_timeout_minutes,
                 message_correlation, pending_feedback, now, tg_next, updates,
                 pollers, starting>>

(***************************************************************************)
(* end_session, the part after the notification (lines 322-333).  ref is   *)
(* the session object the call fetched before the notification.  A session *)
(* id that left active_sessions meanwhile makes the del raise KeyError,    *)
(* which the handler turns into False.                                     *)
(***************************************************************************)
EndFinishKeep(as, pf, mc, h, sid, ref) ==
  [as |-> as, pf |-> Without(pf, {sid}), mc |-> mc, ok |-> sid \in Keys(as)]

EndFinishKeepFeedback(as, pf, mc, h, sid, ref) ==
  IF sid \notin Keys(as)
  THEN [as |-> as, pf |-> pf, mc |-> mc, ok |-> FALSE]
  ELSE [as |-> DictDel(as, sid), pf |-> pf, mc |-> mc, ok |-> TRUE]

EndFinish(as, pf, mc, h, sid, ref) ==
  IF sid \notin Keys(as)
  THEN [as |-> as, pf |-> pf, mc |-> mc, ok |-> FALSE]
  ELSE [as |-> DictDel(as, sid),
        pf |-> Without(pf, {sid}),
        mc |-> Without(mc, {m \in DOMAIN mc : mc[m] \in h[ref].active_mcp_calls}),
        ok |-> TRUE]

\* A caller's end_session up to its first suspension: it suspends in the
\* notification only when the bridge is connected.
EndSessionCall(sid) ==
  LET ref == Get(active_sessions, sid) IN
  /\ UNCHANGED <<limiterVars, chunkerVars>>
  /\ IF ref = NoRef
     THEN /\ ev' = Event("end_session", sid, FALSE, <<>>, FALSE)
          /\ UNCHANGED <<active_sessions, heap, sends, ends, cleaners,
                         message_correlation, pending_feedback>>
     ELSE IF status = "connected"
     THEN /\ Len(ends) < MaxEnds
          /\ Commit(active_sessions, heap, sends,
                    Append(ends, [session_id |-> sid, ref |-> ref]), cleaners)
          /\ ev' = Event("end_session_notify", sid, TRUE, <<>>, TRUE)
          /\ UNCHANGED <<message_correlation, pending_feedback>>
     ELSE LET r == EndFinish(active_sessions, pending_feedback, message_correlation, heap, sid, ref)
          IN /\ pending_feedback' = r.pf
             /\ message_correlation' = r.mc
             /\ Commit(r.as, heap, sends, ends, cleaners)
             /\ ev' = Event("end_session", sid, r.ok, <<>>, FALSE)
  /\ UNCHANGED <<status, is_running, max_concurrent_sessions, session_timeout_minutes,
                 now, tg_next, updates, pollers, starting>>

\* The notification of a caller's end_session has returned.
EndSessionResume(k) ==
  /\ UNCHANGED <<limiterVars, chunkerVars>>
  /\ k \in DOMAIN ends
  /\ LET e  == ends[k]
         r  == EndFinish(active_sessions, pending_feedback, message_correlation, heap,
                         e.session_id, e.ref)
     IN /\ pending_feedback' = r.pf
        /\ message_correlation' = r.mc
        /\ Commit(r.as, heap, sends, RemoveAt(ends, k), cleaners)
        /\ ev' = Event("end_session", e.session_id, r.ok, <<>>, FALSE)
  /\ UNCHANGED <<status, is_running, max_concurrent_sessions, session_timeout_minutes,
                 now, tg_next, updates, pollers, starting>>

(***************************************************************************)
(* stop.  status is DISCONNECTED before _send_system_notification tests    *)
(* it, so nothing is sent and the call never suspends.                     *)
(* ev.ids holds how many sessions, correlation entries and pending         *)
(* feedback entries the call cleared.                                      *)
(***************************************************************************)
clearKept(d) == d

\* dict.clear(), lines 224-226
clear(d) == EmptyMap

Stop ==
  /\ UNCHANGED <<limiterVars, chunkerVars>>
  /\ is_running' = FALSE
  /\ status' = "disconnected"
  /\ Commit(clear(active_sessions), heap, sends, ends, cleaners)
  /\ message_correlation' = clear(message_correlation)
  /\ pending_feedback' = clear(pending_feedback)
  /\ ev' = Event("stop", 0, TRUE,
                 <<Len(active_sessions), Cardinality(DOMAIN message_correlation),
                   Cardinality(DOMAIN pending_feedback)>>, FALSE)
  /\ UNCHANGED <<max_concurrent_sessions, session_timeout_minutes, now, tg_next, updates,
                 pollers, starting>>

\* clear_pending_feedback
ClearPendingFeedback(sid) ==
  /\ UNCHANGED <<limiterVars, chunkerVars>>
  /\ pending_feedback' = Without(pending_feedback, {sid})
  /\ ev' = Event("clear_pending_feedback", sid, TRUE, <<>>, FALSE)
  /\ UNCHANGED <<status, is_running, max_concurrent_sessions, session_timeout_minutes,
                 active_sessions, heap, message_correlation, now, tg_next, updates, sends,
                 ends, cleaners, pollers, starting>>

\* The clock read by datetime.now().
Tick ==
  /\ UNCHANGED <<limiterVars, chunkerVars>>
  /\ now < MaxTime
  /\ now' = now + 1
  /\ ev' = Event("tick", 0, TRUE, <<>>, FALSE)
  /\ UNCHANGED <<status, is_running, max_concurrent_sessions, session_timeout_minutes,
                 active_sessions, heap, message_correlation, pending_feedback, tg_next,
                 updates, sends, ends, cleaners, pollers, starting>>

(***************************************************************************)
(* send_mcp_message_to_telegram.  A message is given by the number of      *)
(* chunks chunk_message returns for it; a chunk is given by its            *)
(* chunk_index metadata.  When more than SummaryThreshold chunks come back *)
(* the summary chunk (chunk_index -1) is inserted at the front.            *)
(***************************************************************************)
SummaryThreshold == 3

chunk_message(message) == [k \in 1..message |-> k - 1]

ChunksToSend(message) ==
  LET chunks == chunk_message(message) IN
  IF Len(chunks) > SummaryThreshold THEN <<-1>> \o chunks ELSE chunks

\* f"{mcp_call_id}_chunk_{i}", i the position enumerate() gives (pos - 1)
ChunkCallId(call, pos) == <<call, pos - 1>>

None == <<>>

\* get_pending_feedback: self.pending_feedback.get(session_id)
get_pending_feedback(pf, sid) == IF sid \in DOMAIN pf THEN pf[sid] ELSE None

\* get_pending_feedback (lines 513-523): the call reads the dict; ev.ids
\* holds what it returned.
GetPendingFeedback(sid) ==
  /\ UNCHANGED <<limiterVars, chunkerVars>>
  /\ ev' = Event("get_pending_feedback", sid, TRUE,
                 <<get_pending_feedback(pending_feedback, sid)>>, FALSE)
  /\ UNCHANGED <<status, is_running, max_concurrent_sessions, session_timeout_minutes,
                 active_sessions, heap, message_correlation, pending_feedback, now,
                 tg_next, updates, sends, ends, cleaners, pollers, starting>>

SessionMissingNever(ref) == FALSE

\* Lines 357-360: session = self.active_sessions.get(session_id); if not session
SessionMissing(ref) == ref = NoRef

\* The call up to the first transport request.  handed lists the chunks given
\* to the transport so far, written the correlation entries this call wrote.
SendStart(sid, call, message) ==
  LET ref    == Get(active_sessions, sid)
      chunks == ChunksToSend(message)
  IN
  /\ UNCHANGED <<limiterVars, chunkerVars>>
  /\ IF SessionMissing(ref) \/ chunks = <<>>
     THEN /\ ev' = Event("send_refused", sid, FALSE, <<>>, FALSE)
          /\ UNCHANGED <<active_sessions, heap, sends, ends, cleaners>>
     ELSE /\ Len(sends) < MaxSends
          /\ Commit(active_sessions, heap,
                    Append(sends, [session_id |-> sid, ref |-> ref, call |-> call,
                                   chunks |-> chunks, pos |-> 1, ids |-> <<>>,
                                   pc |-> "inflight", result |-> 0,
                                   handed |-> <<chunks[1]>>, written |-> <<>>]),
                    ends, cleaners)
          /\ ev' = Event("send_chunk", sid, TRUE, <<>>, TRUE)
  /\ UNCHANGED <<status, is_running, max_concurrent_sessions, session_timeout_minutes,
                 message_correlation, pending_feedback, now, tg_next, updates,
                 pollers, starting>>

\* The Telegram server accepts the sendMessage request of send p: the message
\* gets its id and is in the chat from now on.  The response has not yet
\* reached the coroutine.  limit bounds the message ids the server hands out.
TransportDeliver(p, limit) ==
  /\ UNCHANGED <<limiterVars, chunkerVars>>
  /\ p \in DOMAIN sends
  /\ sends[p].pc = "inflight"
  /\ tg_next < limit
  /\ tg_next' = tg_next + 1
  /\ sends' = [sends EXCEPT ![p].pc = "resp", ![p].result = tg_next + 1]
  /\ ev' = Event("deliver", sends[p].session_id, TRUE, <<tg_next + 1>>, FALSE)
  /\ UNCHANGED <<status, is_running, max_concurrent_sessions, session_timeout_minutes,
                 active_sessions, heap, message_correlation, pending_feedback, now,
                 updates, ends, cleaners, pollers, starting>>

\* The request fails (HTTP error, exception): send_message returns None.
TransportFail(p) ==
  /\ UNCHANGED <<limiterVars, chunkerVars>>
  /\ p \in DOMAIN sends
  /\ sends[p].pc = "inflight"
  /\ sends' = [sends EXCEPT ![p].pc = "resp", ![p].result = 0]
  /\ ev' = Event("transport_fail", sends[p].session_id, FALSE, <<>>, FALSE)
  /\ UNCHANGED <<status, is_running, max_concurrent_sessions, session_timeout_minutes,
                 active_sessions, heap, message_correlation, pending_feedback, now,
                 tg_next, updates, ends, cleaners, pollers, starting>>

LoopEndsAtLast(sent, pos, n) == pos >= n

\* Lines 373-393: the loop is left by break when a chunk was not sent, and
\* after the last chunk.
LoopEnds(sent, pos, n) == ~sent \/ pos >= n

\* The coroutine resumes with the transport's answer (lines 379-434).
SendResume(p) ==
  /\ UNCHANGED <<limiterVars, chunkerVars>>
  /\ p \in DOMAIN sends
  /\ sends[p].pc = "resp"
  /\ LET s    == sends[p]
         sent == s.result # 0
         cid  == ChunkCallId(s.call, s.pos)
         ids  == IF sent THEN Append(s.ids, s.result) ELSE s.ids
         h1   == IF sent THEN [heap EXCEPT ![s.ref].active_mcp_calls = @ \cup {cid}] ELSE heap
     IN /\ message_correlation' =
             IF sent THEN Put(message_correlation, s.result, cid) ELSE message_correlation
        /\ IF ~LoopEnds(sent, s.pos, Len(s.chunks))
           THEN \* asyncio.sleep(0.5) before the next chunk
                /\ sends' = [sends EXCEPT ![p].pc = "sleep", ![p].ids = ids,
                                          ![p].written = Append(@, <<s.result, cid>>)]
                /\ heap' = h1
                /\ ev' = Event("send_recorded", s.session_id, TRUE, ids, FALSE)
                /\ UNCHANGED <<active_sessions, ends, cleaners>>
           ELSE \* the loop is over: last chunk sent, or break on a failed chunk
                /\ Commit(active_sessions,
                          IF ids # <<>> THEN update_activity(h1, s.ref, now) ELSE h1,
                          RemoveAt(sends, p), ends, cleaners)
                /\ ev' = Event("send", s.session_id, ids # <<>>, ids, FALSE)
  /\ UNCHANGED <<status, is_running, max_concurrent_sessions, session_timeout_minutes,
                 pending_feedback, now, tg_next, updates, pollers, starting>>

NextChunkLast(s) == s.chunks[Len(s.chunks)]

\* Line 373: the for loop over enumerate(chunks) takes the next list element.
NextChunk(s) == s.chunks[s.pos + 1]

\* The inter-chunk sleep is over: the next chunk goes to the transport.
SendWake(p) ==
  /\ UNCHANGED <<limiterVars, chunkerVars>>
  /\ p \in DOMAIN sends
  /\ sends[p].pc = "sleep"
  /\ sends' = [sends EXCEPT ![p].pc = "inflight", ![p].pos = @ + 1, ![p].result = 0,
                            ![p].handed = Append(@, NextChunk(sends[p]))]
  /\ ev' = Event("send_chunk", sends[p].session_id, TRUE, sends[p].ids, TRUE)
  /\ UNCHANGED <<status, is_running, max_concurrent_sessions, session_timeout_minutes,
                 active_sessions, heap, message_correlation, pending_feedback, now,
                 tg_next, updates, ends, cleaners, pollers, starting>>

(***************************************************************************)
(* Inbound side.  A user writes into a chat, possibly as a reply to a      *)
(* message the server has delivered; the server keeps the update.  Replies *)
(* to messages without a correlation entry (notifications, forgotten       *)
(* chunks) take the same path in handle_telegram_response as messages that *)
(* are no reply, so reply_to ranges over the chunk message ids only.       *)
(***************************************************************************)
\* limit bounds the updates the server holds.
UserReplyUpTo(chat, reply_to, limit) ==
  /\ UNCHANGED <<limiterVars, chunkerVars>>
  /\ Len(updates) < limit
  /\ reply_to \in 0..tg_next
  /\ updates' = Append(updates, [chat |-> chat, reply_to |-> reply_to])
  /\ ev' = Event("user_reply", 0, TRUE, <<>>, FALSE)
  /\ UNCHANGED <<status, is_running, max_concurrent_sessions, session_timeout_minutes,
                 active_sessions, heap, message_correlation, pending_feedback, now,
                 tg_next, sends, ends, cleaners, pollers, starting>>

UserReply(chat, reply_to) == UserReplyUpTo(chat, reply_to, MaxUpdates)

FindSessionAnyChat(as, h, chat) == IF as = <<>> THEN 0 ELSE 1

\* Lines 452-459: the first session, in dict order, whose chat id matches.
FindSessionByChat(as, h, chat) ==
  LET hits == {k \in DOMAIN as : h[as[k].ref].chat_id = chat} IN
  IF hits = {} THEN 0 ELSE CHOOSE k \in hits : \A j \in hits : k <= j

\* handle_telegram_response for update u (its state changes come before its
\* awaits).  The feedback keeps the correlated call id and the update.
HandleResponse(u, as, pf, mc, h, t) ==
  LET msg == updates[u]
      k   == FindSessionByChat(as, h, msg.chat)
  IN IF k = 0
     THEN [pf |-> pf, h |-> h, ok |-> FALSE, sid |-> 0]
     ELSE LET call == IF msg.reply_to # 0 /\ msg.reply_to \in DOMAIN mc
                      THEN mc[msg.reply_to] ELSE None
          IN [pf  |-> Put(pf, as[k].session_id, [mcp_call_id |-> call, update |-> u]),
              h   |-> update_activity(h, as[k].ref, t),
              ok  |-> TRUE,
              sid |-> as[k].session_id]

(***************************************************************************)
(* _telegram_polling_task.  pc "ready": before the while test (just        *)
(* created, or in asyncio.sleep); "req": get_updates in flight; "got": the *)
(* batch is being handled.  get_updates is called without offset, so the   *)
(* server answers with every update it holds.                              *)
(***************************************************************************)
LoopRunsForever(running) == TRUE

\* Lines 588 and 610: while self.is_running
LoopRuns(running) == running

PollLoop(t) ==
  /\ UNCHANGED <<limiterVars, chunkerVars>>
  /\ t \in DOMAIN pollers
  /\ pollers[t].pc = "ready" \/ (pollers[t].pc = "got" /\ pollers[t].batch = <<>>)
  /\ IF LoopRuns(is_running)
     THEN /\ pollers' = [pollers EXCEPT ![t] = [pc |-> "req", batch |-> <<>>]]
          /\ ev' = Event("poll", 0, TRUE, <<>>, FALSE)
     ELSE /\ pollers' = RemoveAt(pollers, t)
          /\ ev' = Event("poll_exit", 0, TRUE, <<>>, FALSE)
  /\ UNCHANGED <<status, is_running, max_concurrent_sessions, session_timeout_minutes,
                 active_sessions, heap, message_correlation, pending_feedback, now,
                 tg_next, updates, sends, ends, cleaners, starting>>

\* The server answers the getUpdates request; a failed request yields [].
PollFetch(t, success) ==
  /\ UNCHANGED <<limiterVars, chunkerVars>>
  /\ t \in DOMAIN pollers
  /\ pollers[t].pc = "req"
  /\ pollers' = [pollers EXCEPT ![t] =
                   [pc |-> "got",
                    batch |-> IF success THEN [k \in 1..Len(updates) |-> k] ELSE <<>>]]
  /\ ev' = Event("poll_fetch", 0, success, <<>>, FALSE)
  /\ UNCHANGED <<status, is_running, max_concurrent_sessions, session_timeout_minutes,
                 active_sessions, heap, message_correlation, pending_feedback, now,
                 tg_next, updates, sends, ends, cleaners, starting>>

\* Line 595: the next update of the batch goes to handle_telegram_response.
PollHandle(t) ==
  /\ UNCHANGED <<limiterVars, chunkerVars>>
  /\ t \in DOMAIN pollers
  /\ pollers[t].pc = "got"
  /\ pollers[t].batch # <<>>
  /\ LET u == Head(pollers[t].batch)
         r == HandleResponse(u, active_sessions, pending_feedback, message_correlation,
                             heap, now)
     IN /\ pending_feedback' = r.pf
        /\ heap' = r.h
        /\ ev' = Event("handle_telegram_response", r.sid, r.ok, <<u>>, FALSE)
  /\ pollers' = [pollers EXCEPT ![t].batch = Tail(@)]
  /\ UNCHANGED <<status, is_running, max_concurrent_sessions, session_timeout_minutes,
                 active_sessions, message_correlation, now, tg_next, updates, sends,
                 ends, cleaners, starting>>

(***************************************************************************)
(* _session_cleanup_task.  pc "ready": before the while test (just         *)
(* created, or in asyncio.sleep(300)); "ending": suspended in the          *)
(* notification of end_session for Head(expired), holding end_ref.         *)
(* scanned keeps the session objects the last sweep found expired.         *)
(***************************************************************************)
ExpiredSessions(as, h, t, timeout_minutes) ==
  LET exp == SelectSeq(as, LAMBDA e : is_expired(h[e.ref], t, timeout_minutes))
  IN [k \in 1..Len(exp) |-> exp[k].session_id]

\* Lines 619-621 up to the next suspension: end_session of each id in turn;
\* one whose session is there suspends in its notification when the bridge
\* is connected, otherwise it runs through.
RECURSIVE SweepRun(_, _, _, _, _)
SweepRun(list, as, pf, mc, h) ==
  IF list = <<>>
  THEN [expired |-> <<>>, end_ref |-> NoRef, as |-> as, pf |-> pf, mc |-> mc]
  ELSE LET sid == Head(list)
           ref == Get(as, sid)
       IN IF ref = NoRef
          THEN SweepRun(Tail(list), as, pf, mc, h)
          ELSE IF status = "connected"
          THEN [expired |-> list, end_ref |-> ref, as |-> as, pf |-> pf, mc |-> mc]
          ELSE LET r == EndFinish(as, pf, mc, h, sid, ref)
               IN SweepRun(Tail(list), r.as, r.pf, r.mc, h)

CleanupLoop(t) ==
  /\ UNCHANGED <<limiterVars, chunkerVars>>
  /\ t \in DOMAIN cleaners
  /\ cleaners[t].pc = "ready"
  /\ IF ~LoopRuns(is_running)
     THEN /\ Commit(active_sessions, heap, sends, ends, RemoveAt(cleaners, t))
          /\ ev' = Event("cleanup_exit", 0, TRUE, <<>>, FALSE)
          /\ UNCHANGED <<pending_feedback, message_correlation>>
     ELSE LET expired == ExpiredSessions(active_sessions, heap, now, session_timeout_minutes)
              r  == SweepRun(expired, active_sessions, pending_feedback,
                             message_correlation, heap)
              cl == [cleaners EXCEPT ![t] =
                       [pc |-> IF r.expired = <<>> THEN "ready" ELSE "ending",
                        expired |-> r.expired, end_ref |-> r.end_ref,
                        scanned |-> [k \in DOMAIN expired |-> Get(active_sessions, expired[k])]]]
          IN /\ pending_feedback' = r.pf
             /\ message_correlation' = r.mc
             /\ Commit(r.as, heap, sends, ends, cl)
             /\ ev' = Event(IF r.expired = <<>> THEN "sweep_done" ELSE "sweep_notify",
                            t, TRUE, expired, r.expired # <<>>)
  /\ UNCHANGED <<status, is_running, max_concurrent_sessions, session_timeout_minutes,
                 now, tg_next, updates, pollers, starting>>

\* The notification of the sweep's end_session has returned.
CleanupEndResume(t) ==
  /\ UNCHANGED <<limiterVars, chunkerVars>>
  /\ t \in DOMAIN cleaners
  /\ cleaners[t].pc = "ending"
  /\ LET c  == cleaners[t]
         e  == EndFinish(active_sessions, pending_feedback, message_correlation, heap,
                         Head(c.expired), c.end_ref)
         r  == SweepRun(Tail(c.expired), e.as, e.pf, e.mc, heap)
         cl == [cleaners EXCEPT ![t] =
                  [pc |-> IF r.expired = <<>> THEN "ready" ELSE "ending",
                   expired |-> r.expired, end_ref |-> r.end_ref, scanned |-> c.scanned]]
     IN /\ pending_feedback' = r.pf
        /\ message_correlation' = r.mc
        /\ Commit(r.as, heap, sends, ends, cl)
        /\ ev' = Event(IF r.expired = <<>> THEN "sweep_done" ELSE "sweep_notify",
                       t, e.ok, <<Head(c.expired)>>, r.expired # <<>>)
  /\ UNCHANGED <<status, is_running, max_concurrent_sessions, session_timeout_minutes,
                 now, tg_next, updates, pollers, starting>>

(***************************************************************************)
(* start.  The call sets CONNECTING and suspends in test_connection; when  *)
(* the test has answered it either sets ERROR, or sets is_running, creates *)
(* the two tasks and sets CONNECTED.  The startup notification that        *)
(* follows changes no bridge state.                                        *)
(***************************************************************************)
StartCall ==
  /\ UNCHANGED <<limiterVars, chunkerVars>>
  /\ starting < MaxStarts
  /\ starting' = starting + 1
  /\ status' = "connecting"
  /\ ev' = Event("start_call", 0, TRUE, <<>>, FALSE)
  /\ UNCHANGED <<is_running, max_concurrent_sessions, session_timeout_minutes,
                 active_sessions, heap, message_correlation, pending_feedback, now,
                 tg_next, updates, sends, ends, cleaners, pollers>>

NewCleaner == [pc |-> "ready", expired |-> <<>>, end_ref |-> NoRef, scanned |-> <<>>]

NewPoller == [pc |-> "ready", batch |-> <<>>]

VerifiedAlways(success) == TRUE

\* Lines 180-184: success of test_connection; an exception raised by the
\* test reaches the handler of lines 205-208, which also sets ERROR and
\* returns False.
Verified(success) == success

\* limit bounds the tasks of each kind that are alive.
StartResumeUpTo(success, limit) ==
  /\ UNCHANGED <<limiterVars, chunkerVars>>
  /\ starting > 0
  /\ starting' = starting - 1
  /\ IF Verified(success)
     THEN /\ Len(cleaners) < limit
          /\ Len(pollers) < limit
          /\ is_running' = TRUE
          /\ cleaners' = Append(cleaners, NewCleaner)
          /\ pollers' = Append(pollers, NewPoller)
          /\ status' = "connected"
          /\ ev' = Event("start", 0, TRUE, <<>>, TRUE)
     ELSE /\ status' = "error"
          /\ ev' = Event("start", 0, FALSE, <<>>, FALSE)
          /\ UNCHANGED <<is_running, cleaners, pollers>>
  /\ UNCHANGED <<max_concurrent_sessions, session_timeout_minutes, active_sessions, heap,
                 message_correlation, pending_feedback, now, tg_next, updates, sends, ends>>

StartResume(success) == StartResumeUpTo(success, MaxTasks)

(***************************************************************************)
(* TelegramRateLimiter.  acquire() runs under self._lock; its statements   *)
(* are separate steps here, so that the lock, and not the step size, is    *)
(* what keeps callers apart.  pc of a caller: "idle" outside acquire,      *)
(* "locked" holding the lock, "pruned" after the list was filtered,        *)
(* "append" after the test len(requests) < max_requests succeeded.         *)
(***************************************************************************)
Callers == 1..NumCallers

\* A caller outside send_message.  pc of a sender: "none" outside, "acquire"
\* in rate_limiter.acquire(), "sleep" in asyncio.sleep(retry_after), "post"
\* when the request has gone to the transport, "raised" when the call ended
\* with an exception.  depth counts the nested send_message calls.
NoSender == [pc |-> "none", depth |-> 0, wake |-> 0]

LimiterInit ==
  /\ max_requests \in 1..MaxRequests
  /\ time_window \in 1..MaxWindow
  /\ requests = <<>>
  /\ lock = 0
  /\ clock = 0
  /\ callers = [c \in Callers |-> [pc |-> "idle", now |-> 0, ret |-> "none", retry |-> 0]]
  /\ admitted = [t \in 0..MaxClock |-> 0]
  /\ senders = [c \in Callers |-> NoSender]

\* A task calls acquire() and reaches "async with self._lock".
Acquire(c) ==
  /\ UNCHANGED <<bridgeVars, chunkerVars>>
  /\ callers[c].pc = "idle"
  /\ callers' = [callers EXCEPT ![c].pc = "waiting", ![c].ret = "none", ![c].retry = 0]
  /\ UNCHANGED <<max_requests, time_window, requests, lock, clock, admitted, senders>>

LockFreeAlways(l) == TRUE

\* asyncio.Lock: acquired only when no task holds it
LockFree(l) == l = 0

\* The task gets the lock.
Enter(c) ==
  /\ UNCHANGED <<bridgeVars, chunkerVars>>
  /\ callers[c].pc = "waiting"
  /\ LockFree(lock)
  /\ lock' = c
  /\ callers' = [callers EXCEPT ![c].pc = "locked"]
  /\ UNCHANGED <<max_requests, time_window, requests, clock, admitted, senders>>

InWindowShort(t, req_time, window) == t - req_time < window * TicksPerSecond - 1

\* Line 51: now - req_time < self.time_window (times in ticks, window in seconds)
InWindow(t, req_time, window) == t - req_time < window * TicksPerSecond

\* now = time.time(); self.requests = [the requests still in the window]
Prune(c) ==
  /\ UNCHANGED <<bridgeVars, chunkerVars>>
  /\ callers[c].pc = "locked"
  /\ callers' = [callers EXCEPT ![c].pc = "pruned", ![c].now = clock]
  /\ requests' = SelectSeq(requests, LAMBDA req_time : InWindow(clock, req_time, time_window))
  /\ UNCHANGED <<max_requests, time_window, lock, clock, admitted, senders>>

\* int(): truncation towards zero of n / d
IntTrunc(n, d) == IF n >= 0 THEN n \div d ELSE -((-n) \div d)

MinOf(reqs) == CHOOSE x \in Range(reqs) : \A y \in Range(reqs) : x <= y

\* get_retry_after at time t:
\* max(0, int(self.time_window - (time.time() - min(self.requests)))), 0 if empty
get_retry_after(reqs, t, window) ==
  IF reqs = <<>> THEN 0
  ELSE LET v == IntTrunc(window * TicksPerSecond - (t - MinOf(reqs)), TicksPerSecond)
       IN IF v > 0 THEN v ELSE 0

\* if len(self.requests) < self.max_requests ... else return False (lock
\* released); the caller of a refused acquire() evaluates get_retry_after()
\* before it suspends again (retry).
Check(c) ==
  /\ UNCHANGED <<bridgeVars, chunkerVars>>
  /\ callers[c].pc = "pruned"
  /\ IF Len(requests) < max_requests
     THEN /\ callers' = [callers EXCEPT ![c].pc = "append"]
          /\ UNCHANGED lock
     ELSE /\ callers' = [callers EXCEPT ![c].pc = "idle", ![c].ret = "false",
                                        ![c].retry = get_retry_after(requests, clock, time_window)]
          /\ lock' = IF lock = c THEN 0 ELSE lock
  /\ UNCHANGED <<max_requests, time_window, requests, clock, admitted, senders>>

\* self.requests.append(now); return True (lock released)
Admit(c) ==
  /\ UNCHANGED <<bridgeVars, chunkerVars>>
  /\ callers[c].pc = "append"
  /\ requests' = Append(requests, callers[c].now)
  /\ admitted' = [admitted EXCEPT ![callers[c].now] = @ + 1]
  /\ callers' = [callers EXCEPT ![c].pc = "idle", ![c].ret = "true"]
  /\ lock' = IF lock = c THEN 0 ELSE lock
  /\ UNCHANGED <<max_requests, time_window, clock, senders>>

\* time.time() advances
ClockTick ==
  /\ UNCHANGED <<bridgeVars, chunkerVars>>
  /\ clock < MaxClock
  /\ clock' = clock + 1
  /\ UNCHANGED <<max_requests, time_window, requests, lock, callers, admitted, senders>>

(***************************************************************************)
(* TelegramBotManager.send_message (lines 313-366).  A call asks the rate  *)
(* limiter; refused, it sleeps get_retry_after() seconds and calls itself  *)
(* (line 336), one frame deeper each time; admitted, it posts the request. *)
(* The interpreter ends a call nested deeper than its recursion limit with *)
(* RecursionError, which send_message does not catch.                      *)
(***************************************************************************)
\* Line 332: await self.rate_limiter.acquire(), up to the lock.
SendMessage(c) ==
  /\ UNCHANGED <<bridgeVars, chunkerVars>>
  /\ senders[c].pc = "none"
  /\ callers[c].pc = "idle"
  /\ callers' = [callers EXCEPT ![c].pc = "waiting", ![c].ret = "none", ![c].retry = 0]
  /\ senders' = [senders EXCEPT ![c] = [pc |-> "acquire", depth |-> 1, wake |-> 0]]
  /\ UNCHANGED <<max_requests, time_window, requests, lock, clock, admitted>>

\* Lines 333-335: acquire() returned False; asyncio.sleep(retry_after).
SendMessageSleep(c) ==
  /\ UNCHANGED <<bridgeVars, chunkerVars>>
  /\ senders[c].pc = "acquire"
  /\ callers[c].pc = "idle"
  /\ callers[c].ret = "false"
  /\ senders' = [senders EXCEPT ![c].pc = "sleep",
                                ![c].wake = clock + callers[c].retry * TicksPerSecond]
  /\ UNCHANGED <<max_requests, time_window, requests, lock, clock, callers, admitted>>

\* The call of line 336 would be nested deeper than the interpreter allows.
TooDeep(depth) == depth >= RecursionLimit

\* Line 336: the sleep is over; return await self.send_message(...).
SendMessageRetry(c) ==
  /\ UNCHANGED <<bridgeVars, chunkerVars>>
  /\ senders[c].pc = "sleep"
  /\ clock >= senders[c].wake
  /\ IF TooDeep(senders[c].depth)
     THEN /\ senders' = [senders EXCEPT ![c].pc = "raised"]
          /\ UNCHANGED callers
     ELSE /\ senders' = [senders EXCEPT ![c].pc = "acquire", ![c].depth = @ + 1]
          /\ callers' = [callers EXCEPT ![c].pc = "waiting", ![c].ret = "none",
                                        ![c].retry = 0]
  /\ UNCHANGED <<max_requests, time_window, requests, lock, clock, admitted>>

\* Lines 338-353: acquire() returned True; the request goes to the transport.
SendMessagePost(c) ==
  /\ UNCHANGED <<bridgeVars, chunkerVars>>
  /\ senders[c].pc = "acquire"
  /\ callers[c].pc = "idle"
  /\ callers[c].ret = "true"
  /\ senders' = [senders EXCEPT ![c].pc = "post"]
  /\ UNCHANGED <<max_requests, time_window, requests, lock, clock, callers, admitted>>

(***************************************************************************)
(* Specifications.  Each one runs the bridge under every interleaving of   *)
(* the operations it lists; the operations are the actions above.          *)
(*                                                                         *)
(* Spec: the session registry.  Callers create and end sessions and stop   *)
(* and start the bridge while the cleanup task sweeps and the clock runs.  *)
(***************************************************************************)
\* The limiter as constructed, for the specifications that do not run it.
LimiterIdle ==
  /\ max_requests = 1
  /\ time_window = 1
  /\ requests = <<>>
  /\ lock = 0
  /\ clock = 0
  /\ callers = [c \in Callers |-> [pc |-> "idle", now |-> 0, ret |-> "none", retry |-> 0]]
  /\ admitted = [t \in 0..MaxClock |-> 0]
  /\ senders = [c \in Callers |-> NoSender]

(***************************************************************************)
(* MessageChunker.  A Python string is the sequence of its characters,     *)
(* each a one-element value: printable ASCII characters stand for          *)
(* themselves, "\n" is the newline, and any other code point is written    *)
(* "U+" followed by its number (the backquote is "U+0060").  len() is Len. *)
(***************************************************************************)
Whitespace == {" ", "\n"}

MinOfSet(S) == CHOOSE x \in S : \A y \in S : x <= y

MaxOfSet(S) == CHOOSE x \in S : \A y \in S : x >= y

\* s[a:b] with 0-based a, b clipped to the string
Slice(s, a, b) == SubSeq(s, a + 1, IF b < Len(s) THEN b ELSE Len(s))

StartsWithAt(s, i, pat) ==
  /\ i + Len(pat) - 1 <= Len(s)
  /\ \A k \in 1..Len(pat) : s[i + k - 1] = pat[k]

startswith(s, pat) == StartsWithAt(s, 1, pat)

endswith(s, pat) == Len(pat) <= Len(s) /\ StartsWithAt(s, Len(s) - Len(pat) + 1, pat)

\* The least position >= start where pat occurs in s, 0 when there is none.
find(s, pat, start) ==
  LET hits == {i \in start..Len(s) : StartsWithAt(s, i, pat)}
  IN IF hits = {} THEN 0 ELSE MinOfSet(hits)

\* str.split(sep)
RECURSIVE split(_, _)
split(s, sep) ==
  LET i == find(s, sep, 1)
  IN IF i = 0 THEN <<s>>
     ELSE <<SubSeq(s, 1, i - 1)>> \o split(SubSeq(s, i + Len(sep), Len(s)), sep)

\* sep.join(list)
RECURSIVE join(_, _)
join(sep, list) ==
  IF list = <<>> THEN <<>>
  ELSE IF Len(list) = 1 THEN list[1]
  ELSE list[1] \o sep \o join(sep, Tail(list))

\* str.strip()
strip(s) ==
  LET keep == {i \in DOMAIN s : s[i] \notin Whitespace}
  IN IF keep = {} THEN <<>> ELSE SubSeq(s, MinOfSet(keep), MaxOfSet(keep))

\* str.split() without argument: the maximal runs of non-whitespace
RECURSIVE split_words(_)
split_words(s) ==
  LET starts == {i \in DOMAIN s : s[i] \notin Whitespace}
  IN IF starts = {} THEN <<>>
     ELSE LET a    == MinOfSet(starts)
              gaps == {j \in a..Len(s) : s[j] \in Whitespace}
              b    == IF gaps = {} THEN Len(s) + 1 ELSE MinOfSet(gaps)
          IN <<SubSeq(s, a, b - 1)>> \o split_words(SubSeq(s, b, Len(s)))

\* re.split(r'(?<=[.!?])\s+', s): a cut is a maximal run of whitespace that
\* follows one of . ! ?
RECURSIVE split_sentences(_)
split_sentences(s) ==
  LET cuts == {i \in 2..Len(s) : s[i] \in Whitespace /\ s[i - 1] \in {".", "!", "?"}}
  IN IF cuts = {} THEN <<s>>
     ELSE LET a    == MinOfSet(cuts)
              rest == {j \in a..Len(s) : s[j] \notin Whitespace}
              b    == IF rest = {} THEN Len(s) + 1 ELSE MinOfSet(rest)
          IN <<SubSeq(s, 1, a - 1)>> \o split_sentences(SubSeq(s, b, Len(s)))

Fence == <<"U+0060", "U+0060", "U+0060">>

\* CODE_BLOCK_PATTERN = ```[\s\S]*?```: the leftmost match in s, as the pair
\* of its first and last position, <<0, 0>> when there is none.  The match
\* starts at the first fence and ends with the nearest fence after it.
CodeBlockSearch(s) ==
  LET i == find(s, Fence, 1)
      j == IF i = 0 THEN 0 ELSE find(s, Fence, i + 3)
  IN IF j = 0 THEN <<0, 0>> ELSE <<i, j + 2>>

\* CODE_BLOCK_PATTERN.findall(s)
RECURSIVE CodeBlockFindall(_)
CodeBlockFindall(s) ==
  LET m == CodeBlockSearch(s)
  IN IF m[1] = 0 THEN <<>>
     ELSE <<SubSeq(s, m[1], m[2])>> \o CodeBlockFindall(SubSeq(s, m[2] + 1, Len(s)))

\* CODE_BLOCK_PATTERN.split(s)
RECURSIVE CodeBlockSplit(_)
CodeBlockSplit(s) ==
  LET m == CodeBlockSearch(s)
  IN IF m[1] = 0 THEN <<s>>
     ELSE <<SubSeq(s, 1, m[1] - 1)>> \o CodeBlockSplit(SubSeq(s, m[2] + 1, Len(s)))

\* str(n) for n >= 0
RECURSIVE Digits(_)
Digits(n) ==
  LET d == <<"0", "1", "2", "3", "4", "5", "6", "7", "8", "9">>[(n % 10) + 1]
  IN IF n < 10 THEN <<d>> ELSE Digits(n \div 10) \o <<d>>

\* f"{n:,}": the digits in groups of three, separated by commas
RECURSIVE DigitsGrouped(_)
DigitsGrouped(n) ==
  IF n < 1000 THEN Digits(n)
  ELSE LET low == Digits(n % 1000)
       IN DigitsGrouped(n \div 1000) \o <<",">> \o [k \in 1..(3 - Len(low)) |-> "0"] \o low

(***************************************************************************)
(* A MessageChunk with its ChunkMetadata, as one record.  has_code,        *)
(* has_markdown, context_preserved and preview are written but never read  *)
(* by the functions below and are left out.  None is the absent marker or  *)
(* navigation line.                                                        *)
(***************************************************************************)
_create_chunk(text, content_type, strategy) ==
  [content |-> text, chunk_index |-> 0, total_chunks |-> 0,
   chunk_type |-> content_type, strategy_used |-> strategy,
   original_length |-> 0, chunk_length |-> Len(text),
   continuation_marker |-> None, navigation_info |-> None]

SliceOne(s, i, m) == Slice(s, i, i + 1)

\* Line 613: content[i:i + self.max_chunk_size]
SliceAt(s, i, m) == Slice(s, i, i + m)

\* _chunk_by_characters: for i in range(0, len(content), max_chunk_size)
RECURSIVE CharactersLoop(_, _, _, _)
CharactersLoop(text, content_type, m, i) ==
  IF i >= Len(text) THEN <<>>
  ELSE <<_create_chunk(SliceAt(text, i, m), content_type, "character_boundary")>>
         \o CharactersLoop(text, content_type, m, i + m)

_chunk_by_characters(text, content_type, m) == CharactersLoop(text, content_type, m, 0)

\* The statements after each loop: if current_chunk: chunks.append(...)
Flush(chunks, current_chunk, content_type, strategy) ==
  IF current_chunk # <<>>
  THEN Append(chunks, _create_chunk(current_chunk, content_type, strategy))
  ELSE chunks

\* _chunk_by_words: the loop over content.split()
RECURSIVE WordsLoop(_, _, _, _, _)
WordsLoop(words, chunks, current_chunk, content_type, m) ==
  IF words = <<>> THEN Flush(chunks, current_chunk, content_type, "word_boundary")
  ELSE LET word       == Head(words)
           test_chunk == current_chunk \o (IF current_chunk # <<>> THEN <<" ">> ELSE <<>>) \o word
       IN IF Len(test_chunk) <= m
          THEN WordsLoop(Tail(words), chunks, test_chunk, content_type, m)
          ELSE LET saved == Flush(chunks, current_chunk, content_type, "word_boundary")
               IN IF Len(word) > m
                  THEN WordsLoop(Tail(words), saved \o _chunk_by_characters(word, content_type, m),
                                 <<>>, content_type, m)
                  ELSE WordsLoop(Tail(words), saved, word, content_type, m)

_chunk_by_words(text, content_type, m) ==
  WordsLoop(split_words(text), <<>>, <<>>, content_type, m)

\* _chunk_by_sentences: the loop over the pieces of re.split
RECURSIVE SentencesLoop(_, _, _, _, _)
SentencesLoop(sentences, chunks, current_chunk, content_type, m) ==
  IF sentences = <<>> THEN Flush(chunks, current_chunk, content_type, "sentence_boundary")
  ELSE LET sentence   == Head(sentences)
           test_chunk == current_chunk \o (IF current_chunk # <<>> THEN <<" ">> ELSE <<>>)
                           \o sentence
       IN IF strip(sentence) = <<>>
          THEN SentencesLoop(Tail(sentences), chunks, current_chunk, content_type, m)
          ELSE IF Len(test_chunk) <= m
          THEN SentencesLoop(Tail(sentences), chunks, test_chunk, content_type, m)
          ELSE LET saved == Flush(chunks, current_chunk, content_type, "sentence_boundary")
               IN IF Len(sentence) > m
                  THEN SentencesLoop(Tail(sentences),
                                     saved \o _chunk_by_words(sentence, content_type, m),
                                     <<>>, content_type, m)
                  ELSE SentencesLoop(Tail(sentences), saved, sentence, content_type, m)

_chunk_by_sentences(text, content_type, m) ==
  SentencesLoop(split_sentences(text), <<>>, <<>>, content_type, m)

\* _chunk_by_lines: the loop over content.split('\n')
RECURSIVE LinesLoop(_, _, _, _, _)
LinesLoop(lines, chunks, current_chunk, content_type, m) ==
  IF lines = <<>> THEN Flush(chunks, current_chunk, content_type, "line_boundary")
  ELSE LET line       == Head(lines)
           test_chunk == current_chunk \o (IF current_chunk # <<>> THEN <<"\n">> ELSE <<>>) \o line
       IN IF Len(test_chunk) <= m
          THEN LinesLoop(Tail(lines), chunks, test_chunk, content_type, m)
          ELSE LET saved == Flush(chunks, current_chunk, content_type, "line_boundary")
               IN IF Len(line) > m
                  THEN LinesLoop(Tail(lines), saved \o _chunk_by_words(line, content_type, m),
                                 <<>>, content_type, m)
                  ELSE LinesLoop(Tail(lines), saved, line, content_type, m)

_chunk_by_lines(text, content_type, m) ==
  LinesLoop(split(text, <<"\n">>), <<>>, <<>>, content_type, m)

\* _chunk_by_paragraphs: the loop over content.split('\n\n')
RECURSIVE ParagraphsLoop(_, _, _, _, _)
ParagraphsLoop(paragraphs, chunks, current_chunk, content_type, m) ==
  IF paragraphs = <<>> THEN Flush(chunks, current_chunk, content_type, "paragraph_boundary")
  ELSE LET paragraph  == Head(paragraphs)
           test_chunk == current_chunk
                           \o (IF current_chunk # <<>> THEN <<"\n", "\n">> ELSE <<>>)
                           \o paragraph
       IN IF strip(paragraph) = <<>>
          THEN ParagraphsLoop(Tail(paragraphs), chunks, current_chunk, content_type, m)
          ELSE IF Len(test_chunk) <= m
          THEN ParagraphsLoop(Tail(paragraphs), chunks, test_chunk, content_type, m)
          ELSE LET saved == Flush(chunks, current_chunk, content_type, "paragraph_boundary")
               IN IF Len(paragraph) > m
                  THEN ParagraphsLoop(Tail(paragraphs),
                                      saved \o _chunk_by_sentences(paragraph, content_type, m),
                                      <<>>, content_type, m)
                  ELSE ParagraphsLoop(Tail(paragraphs), saved, paragraph, content_type, m)

_chunk_by_paragraphs(text, content_type, m) ==
  ParagraphsLoop(split(text, <<"\n", "\n">>), <<>>, <<>>, content_type, m)

\* f"```{language}\n{chr(10).join(current_lines)}\n```"
FencedBlock(language, lines) ==
  Fence \o language \o <<"\n">> \o join(<<"\n">>, lines) \o <<"\n">> \o Fence

\* _chunk_large_code_block: the loop over code_lines
RECURSIVE CodeLinesLoop(_, _, _, _, _)
CodeLinesLoop(code_lines, chunks, current_lines, language, m) ==
  IF code_lines = <<>>
  THEN IF current_lines # <<>>
       THEN Append(chunks, _create_chunk(FencedBlock(language, current_lines), "code",
                                         "code_block_boundary"))
       ELSE chunks
  ELSE LET line == Head(code_lines)
       IN IF Len(FencedBlock(language, Append(current_lines, line))) <= m
          THEN CodeLinesLoop(Tail(code_lines), chunks, Append(current_lines, line), language, m)
          ELSE CodeLinesLoop(Tail(code_lines),
                             IF current_lines # <<>>
                             THEN Append(chunks,
                                         _create_chunk(FencedBlock(language, current_lines),
                                                       "code", "code_block_boundary"))
                             ELSE chunks,
                             <<line>>, language, m)

_chunk_large_code_block(code_block, m) ==
  LET lines        == split(code_block, <<"\n">>)
      fenced       == startswith(lines[1], Fence)
      language     == IF fenced THEN strip(SubSeq(lines[1], 4, Len(lines[1]))) ELSE <<>>
      code_content == IF fenced
                      THEN join(<<"\n">>, SubSeq(lines, 2, Len(lines) - 1))
                      ELSE code_block
  IN CodeLinesLoop(split(code_content, <<"\n">>), <<>>, <<>>, language, m)

\* _chunk_by_code_blocks: the while loop over parts, parts[i] followed by
\* code_blocks[i] (positions from 1 here)
RECURSIVE CodeBlocksLoop(_, _, _, _, _, _, _)
CodeBlocksLoop(parts, code_blocks, i, chunks, current_chunk, content_type, m) ==
  IF i > Len(parts)
  THEN Flush(chunks, current_chunk, content_type, "code_block_boundary")
  ELSE LET fits1   == Len(current_chunk \o parts[i]) <= m
           chunks1 == IF parts[i] # <<>> /\ ~fits1
                      THEN Flush(chunks, current_chunk, content_type, "code_block_boundary")
                      ELSE chunks
           current1 == IF parts[i] = <<>> THEN current_chunk
                       ELSE IF fits1 THEN current_chunk \o parts[i] ELSE parts[i]
       IN IF i > Len(code_blocks)
          THEN CodeBlocksLoop(parts, code_blocks, i + 1, chunks1, current1, content_type, m)
          ELSE LET code_block == code_blocks[i]
               IN IF Len(current1 \o code_block) <= m
                  THEN CodeBlocksLoop(parts, code_blocks, i + 1, chunks1,
                                      current1 \o code_block, content_type, m)
                  ELSE LET chunks2 == Flush(chunks1, current1, content_type,
                                            "code_block_boundary")
                       IN IF Len(code_block) > m
                          THEN CodeBlocksLoop(parts, code_blocks, i + 1,
                                              chunks2 \o _chunk_large_code_block(code_block, m),
                                              <<>>, content_type, m)
                          ELSE CodeBlocksLoop(parts, code_blocks, i + 1, chunks2, code_block,
                                              content_type, m)

_chunk_by_code_blocks(text, content_type, m) ==
  CodeBlocksLoop(CodeBlockSplit(text), CodeBlockFindall(text), 1, <<>>, <<>>, content_type, m)

\* json.loads(s) succeeds.  The texts of the model hold no digit, quote,
\* comma, colon or the letters of a JSON literal, so the JSON values among
\* them are the empty object and arrays nested one inside the other.
RECURSIVE JsonLoads(_)
JsonLoads(s) ==
  LET t     == strip(s)
      inner == strip(SubSeq(t, 2, Len(t) - 1))
  IN /\ Len(t) >= 2
     /\ \/ t[1] = "{" /\ t[Len(t)] = "}" /\ inner = <<>>
        \/ t[1] = "[" /\ t[Len(t)] = "]" /\ (inner = <<>> \/ JsonLoads(inner))

\* re.match(r'^\s*[-*•]\s+', line)
BulletLine(line) ==
  LET seen == {i \in DOMAIN line : line[i] \notin Whitespace}
  IN /\ seen # {}
     /\ line[MinOfSet(seen)] \in {"-", "*", "U+2022"}
     /\ MinOfSet(seen) < Len(line)
     /\ line[MinOfSet(seen) + 1] \in Whitespace

ListShareOfNonEmpty(list_lines, lines) ==
  2 * list_lines > Cardinality({i \in DOMAIN lines : strip(lines[i]) # <<>>})

\* Line 361: list_lines > len(lines) * 0.5
ListShare(list_lines, lines) == 2 * list_lines > Len(lines)

_detect_content_type(text) ==
  LET stripped    == strip(text)
      lines       == split(text, <<"\n">>)
      list_lines  == Cardinality({i \in DOMAIN lines : BulletLine(lines[i])})
      table_lines == Cardinality({i \in DOMAIN lines : \E k \in DOMAIN lines[i] : lines[i][k] = "|"})
  IN IF CodeBlockSearch(text)[1] # 0 THEN "code"
     ELSE IF /\ \/ startswith(stripped, <<"{">>) /\ endswith(stripped, <<"}">>)
                \/ startswith(stripped, <<"[">>) /\ endswith(stripped, <<"]">>)
             /\ JsonLoads(stripped)
     THEN "json"
     ELSE IF ListShare(list_lines, lines) THEN "list"
     ELSE IF 10 * table_lines > 3 * Len(lines) THEN "table"
     ELSE "text"

_choose_chunking_strategy(text, content_type, preserve) ==
  IF content_type = "code"
  THEN IF preserve THEN "code_block_boundary" ELSE "line_boundary"
  ELSE IF content_type \in {"json", "list", "table"} THEN "line_boundary"
  ELSE IF find(text, <<"\n", "\n">>, 1) # 0 THEN "paragraph_boundary"
  ELSE "sentence_boundary"

_chunk_by_strategy(text, strategy, content_type, m) ==
  IF strategy = "code_block_boundary" THEN _chunk_by_code_blocks(text, content_type, m)
  ELSE IF strategy = "paragraph_boundary" THEN _chunk_by_paragraphs(text, content_type, m)
  ELSE IF strategy = "sentence_boundary" THEN _chunk_by_sentences(text, content_type, m)
  ELSE IF strategy = "line_boundary" THEN _chunk_by_lines(text, content_type, m)
  ELSE IF strategy = "word_boundary" THEN _chunk_by_words(text, content_type, m)
  ELSE _chunk_by_characters(text, content_type, m)

\* The constructor's default, which the bridge keeps (line 162).
add_navigation == TRUE

\* Line 692: the navigation line of chunk i (from 0) of total_chunks
NavigationInfo(i, total_chunks) ==
  <<"U+1F4C4", " ", "*", "*", "P", "a", "r", "t", " ">>
    \o Digits(i + 1) \o <<" ", "o", "f", " ">> \o Digits(total_chunks) \o <<"*", "*">>

\* Line 696
ContinuationMarker ==
  <<"U+2B07", "U+FE0F", " ", "*", "C", "o", "n", "t", "i", "n", "u", "e", "d",
    " ", "i", "n", " ", "n", "e", "x", "t", " ", "m", "e", "s", "s", "a",
    "g", "e", ".", ".", ".", "*">>

IndexFromOne(i) == i

\* Line 686: chunk.metadata.chunk_index = i, i from enumerate (position - 1)
IndexOf(position) == position - 1

_add_chunk_metadata(chunks, original_content) ==
  [k \in DOMAIN chunks |->
     [chunks[k] EXCEPT
        !.chunk_index = IndexOf(k),
        !.total_chunks = Len(chunks),
        !.original_length = Len(original_content),
        !.navigation_info = IF add_navigation /\ Len(chunks) > 1
                            THEN NavigationInfo(k - 1, Len(chunks)) ELSE @,
        !.continuation_marker = IF k - 1 < Len(chunks) - 1 THEN ContinuationMarker ELSE @]]

EmptyNever(text) == FALSE

\* Line 164: if not content or not content.strip()
Empty(text) == text = <<>> \/ strip(text) = <<>>

(***************************************************************************)
(* chunk_message(content) without title and without content_type hint, as  *)
(* the bridge and chunk_text call it, for a chunker of max_chunk_size m    *)
(* and preserve_code_blocks preserve.                                      *)
(***************************************************************************)
chunk_text(text, m, preserve) ==
  IF Empty(text) THEN <<>>
  ELSE LET content_type == _detect_content_type(text)
       IN IF Len(text) <= m
          THEN <<[_create_chunk(text, content_type, "sentence_boundary") EXCEPT
                    !.total_chunks = 1, !.original_length = Len(text)]>>
          ELSE LET strategy == _choose_chunking_strategy(text, content_type, preserve)
               IN _add_chunk_metadata(_chunk_by_strategy(text, strategy, content_type, m), text)

\* ChunkType.value
TypeValue(content_type) ==
  CASE content_type = "text"  -> <<"t", "e", "x", "t">>
    [] content_type = "code"  -> <<"c", "o", "d", "e">>
    [] content_type = "json"  -> <<"j", "s", "o", "n">>
    [] content_type = "list"  -> <<"l", "i", "s", "t">>
    [] content_type = "table" -> <<"t", "a", "b", "l", "e">>
    [] content_type = "mixed" -> <<"m", "i", "x", "e", "d">>

\* Lines 95-96: the footer of a chunk of a batch
PartFooter(chunk) ==
  <<"U+1F4C4", " ", "P", "a", "r", "t", " ">>
    \o Digits(chunk.chunk_index + 1) \o <<"/">> \o Digits(chunk.total_chunks)
    \o <<" ", "(">> \o Digits(chunk.chunk_length)
    \o <<" ", "c", "h", "a", "r", "s", ",", " ">> \o TypeValue(chunk.chunk_type) \o <<")">>

ContentOnly(chunk, include_metadata) == chunk.content

\* MessageChunk.to_telegram_message
to_telegram_message(chunk, include_metadata) ==
  join(<<"\n">>,
       (IF chunk.navigation_info # None /\ include_metadata
        THEN <<chunk.navigation_info, <<>>>> ELSE <<>>)
       \o <<chunk.content>>
       \o (IF chunk.continuation_marker # None
           THEN <<<<>>, chunk.continuation_marker>> ELSE <<>>)
       \o (IF include_metadata /\ chunk.total_chunks > 1
           THEN <<<<>>, PartFooter(chunk)>> ELSE <<>>))

\* _generate_content_preview
_generate_content_preview(text, max_length) ==
  LET preview == join(<<" ">>, split_words(text))
  IN IF Len(preview) > max_length
     THEN SubSeq(preview, 1, max_length - 3) \o <<".", ".", ".">>
     ELSE preview

\* Line 317: one line of the summary's list of parts, i from 0
SummaryPartLine(i, chunk) ==
  <<"U+2022", " ", "P", "a", "r", "t", " ">> \o Digits(i + 1) \o <<":", " ">>
    \o DigitsGrouped(chunk.chunk_length) \o <<" ", "c", "h", "a", "r", "s", " ", "(">>
    \o TypeValue(chunk.chunk_type) \o <<")">>

\* create_summary_chunk
create_summary_chunk(chunks, original_content) ==
  LET preview == _generate_content_preview(original_content, 200)
      summary_lines ==
        <<<<"U+1F4CB", " ", "*", "*", "C", "o", "n", "t", "e", "n", "t", " ", "S", "u",
            "m", "m", "a", "r", "y", "*", "*">>,
          <<>>,
          <<"U+1F4CA", " ", "*", "*", "S", "t", "a", "t", "i", "s", "t", "i", "c", "s",
            ":", "*", "*">>,
          <<"U+2022", " ", "T", "o", "t", "a", "l", " ", "l", "e", "n", "g", "t", "h",
            ":", " ">>
            \o DigitsGrouped(Len(original_content))
            \o <<" ", "c", "h", "a", "r", "a", "c", "t", "e", "r", "s">>,
          <<"U+2022", " ", "N", "u", "m", "b", "e", "r", " ", "o", "f", " ", "p", "a",
            "r", "t", "s", ":", " ">>
            \o Digits(Len(chunks)),
          <<"U+2022", " ", "C", "o", "n", "t", "e", "n", "t", " ", "t", "y", "p", "e",
            ":", " ">>
            \o (IF chunks # <<>> THEN TypeValue(chunks[1].chunk_type)
                ELSE <<"u", "n", "k", "n", "o", "w", "n">>),
          <<>>>>
        \o (IF preview # <<>>
            THEN <<<<"U+1F50D", " ", "*", "*", "P", "r", "e", "v", "i", "e", "w", ":", "*", "*">>,
                   Fence \o <<"\n">> \o preview \o <<"\n">> \o Fence,
                   <<>>>>
            ELSE <<>>)
        \o (IF Len(chunks) > 1
            THEN <<<<"U+1F4C4", " ", "*", "*", "P", "a", "r", "t", "s", ":", "*", "*">>>>
                 \o [k \in DOMAIN chunks |-> SummaryPartLine(k - 1, chunks[k])]
                 \o <<<<>>>>
            ELSE <<>>)
        \o <<<<"U+1F4A1", " ", "U", "s", "e", " ", "t", "h", "e", " ", "n", "u", "m", "b",
              "e", "r", "e", "d", " ", "p", "a", "r", "t", "s", " ", "b",
              "e", "l", "o", "w", " ", "t", "o", " ", "r", "e", "a", "d",
              " ", "t", "h", "e", " ", "c", "o", "m", "p", "l", "e", "t",
              "e", " ", "c", "o", "n", "t", "e", "n", "t", ".">>>>
      summary_content == join(<<"\n">>, summary_lines)
  IN [content |-> summary_content, chunk_index |-> -1, total_chunks |-> Len(chunks) + 1,
      chunk_type |-> "mixed", strategy_used |-> "sentence_boundary",
      original_length |-> Len(original_content), chunk_length |-> Len(summary_content),
      continuation_marker |-> None,
      navigation_info |->
        <<"U+1F4CB", " ", "*", "*", "S", "U", "M", "M", "A", "R", "Y", "*", "*", " ",
          "(", "R", "e", "a", "d", " ", "t", "h", "i", "s", " ", "f", "i",
          "r", "s", "t", ")">>]

\* Lines 366-368 of the bridge: the summary chunk goes in front of a batch
\* of more than three chunks.
WithSummary(chunks, message) ==
  IF Len(chunks) > SummaryThreshold
  THEN <<create_summary_chunk(chunks, message)>> \o chunks
  ELSE chunks

(***************************************************************************)
(* One call of a chunker function on the text of the state.                *)
(***************************************************************************)
ChunkMessage ==
  /\ UNCHANGED <<bridgeVars, limiterVars>>
  /\ called = "none"
  /\ called' = "chunk_message"
  /\ returned' = chunk_text(content, max_chunk_size, preserve_code_blocks)
  /\ UNCHANGED <<content, max_chunk_size, preserve_code_blocks>>

ChunkByCharacters ==
  /\ UNCHANGED <<bridgeVars, limiterVars>>
  /\ called = "none"
  /\ called' = "_chunk_by_characters"
  /\ returned' = _chunk_by_characters(content, "text", max_chunk_size)
  /\ UNCHANGED <<content, max_chunk_size, preserve_code_blocks>>

\* Lines 469-472: _chunk_by_code_blocks hands over a match of the code
\* block pattern that is longer than max_chunk_size.
ChunkLargeCodeBlock ==
  /\ UNCHANGED <<bridgeVars, limiterVars>>
  /\ called = "none"
  /\ CodeBlockSearch(content) = <<1, Len(content)>>
  /\ Len(content) > max_chunk_size
  /\ called' = "_chunk_large_code_block"
  /\ returned' = _chunk_large_code_block(content, max_chunk_size)
  /\ UNCHANGED <<content, max_chunk_size, preserve_code_blocks>>

DetectContentType ==
  /\ UNCHANGED <<bridgeVars, limiterVars>>
  /\ called = "none"
  /\ called' = "_detect_content_type"
  /\ returned' = _detect_content_type(content)
  /\ UNCHANGED <<content, max_chunk_size, preserve_code_blocks>>

\* Lines 363-375 of the bridge: the chunks of the message, the summary in
\* front when there is one, each turned into the text given to send_message.
ToTelegramMessages ==
  /\ UNCHANGED <<bridgeVars, limiterVars>>
  /\ called = "chunk_message"
  /\ called' = "to_telegram_message"
  /\ returned' = LET chunks == WithSummary(returned, content)
                 IN [k \in DOMAIN chunks |-> to_telegram_message(chunks[k], TRUE)]
  /\ UNCHANGED <<content, max_chunk_size, preserve_code_blocks>>

\* Lines 363-368 of the bridge: the list of chunks that send goes through,
\* the summary chunk inserted at position 0 of a batch of more than three.
InsertSummary ==
  /\ UNCHANGED <<bridgeVars, limiterVars>>
  /\ called = "chunk_message"
  /\ called' = "insert_summary"
  /\ returned' = WithSummary(returned, content)
  /\ UNCHANGED <<content, max_chunk_size, preserve_code_blocks>>

\* The texts of at most n characters of an alphabet.
Texts(alphabet, n) == UNION {[1..k -> alphabet] : k \in 0..n}

\* The texts made of at most n of the given pieces.
RECURSIVE Concat(_)
Concat(pieces) == IF pieces = <<>> THEN <<>> ELSE Head(pieces) \o Concat(Tail(pieces))

TextsOfPieces(pieces, n) == {Concat(t) : t \in Texts(pieces, n)}

\* A chunker nothing is asked of, for the specifications of the bridge and of
\* the rate limiter.
ChunkerIdle ==
  /\ content = <<>>
  /\ max_chunk_size = 1
  /\ preserve_code_blocks = TRUE
  /\ called = "none"
  /\ returned = <<>>

\* The bridge as constructed, for the specifications that do not run it.
BridgeIdle ==
  /\ BridgeInit
  /\ max_concurrent_sessions = 1
  /\ session_timeout_minutes = 1

FirstChat == CHOOSE c \in ChatIds : \A d \in ChatIds : c <= d

Next ==
  \/ \E sid \in SessionIds : CreateSession(sid, FirstChat)
  \/ \E sid \in SessionIds : EndSessionCall(sid)
  \/ \E k \in 1..MaxEnds : EndSessionResume(k)
  \/ \E t \in 1..MaxTasks : CleanupLoop(t)
  \/ \E t \in 1..MaxTasks : CleanupEndResume(t)
  \/ StartCall
  \/ \E success \in BOOLEAN : StartResume(success)
  \/ Stop
  \/ Tick

vars == <<bridgeVars, limiterVars, chunkerVars>>

Init == BridgeInit /\ LimiterIdle /\ ChunkerIdle

Spec == Init /\ [][Next]_vars

\* SpecEnd: sessions with single-chunk sends, ended by overlapping callers.
NextEnd ==
  \/ \E sid \in SessionIds : CreateSession(sid, FirstChat)
  \/ \E sid \in SessionIds : EndSessionCall(sid)
  \/ \E k \in 1..MaxEnds : EndSessionResume(k)
  \/ \E sid \in SessionIds, call \in CallIds, message \in 0..1 : SendStart(sid, call, message)
  \/ \E p \in 1..MaxSends : TransportDeliver(p, 1)
  \/ \E p \in 1..MaxSends : TransportFail(p)
  \/ \E p \in 1..MaxSends : SendResume(p)
  \/ StartCall
  \/ \E success \in BOOLEAN : StartResume(success)
  \/ Stop

SpecEnd == Init /\ [][NextEnd]_vars

\* SpecPoll: one session id; single-chunk sends race with the polling task.
NextPoll ==
  \/ \E chat \in ChatIds : CreateSession(1, chat)
  \/ \E call \in CallIds, message \in 0..1 : SendStart(1, call, message)
  \/ \E p \in 1..MaxSends : TransportDeliver(p, 1)
  \/ \E p \in 1..MaxSends : TransportFail(p)
  \/ \E p \in 1..MaxSends : SendResume(p)
  \/ \E chat \in ChatIds, reply_to \in 0..1 : UserReply(chat, reply_to)
  \/ \E t \in 1..MaxTasks : PollLoop(t)
  \/ \E t \in 1..MaxTasks, success \in BOOLEAN : PollFetch(t, success)
  \/ \E t \in 1..MaxTasks : PollHandle(t)
  \/ ClearPendingFeedback(1)
  \/ StartCall
  \/ \E success \in BOOLEAN : StartResume(success)
  \/ Stop

SpecPoll == Init /\ [][NextPoll]_vars

\* SpecOverlap: callers create sessions only under ids that are not active and
\* end them, the cleanup sweep ends expired ones; end_session calls for one
\* id overlap (two callers, or a caller and the sweep).
NextOverlap ==
  \/ \E sid \in SessionIds : sid \notin Keys(active_sessions) /\ CreateSession(sid, FirstChat)
  \/ \E sid \in SessionIds : EndSessionCall(sid)
  \/ \E k \in 1..MaxEnds : EndSessionResume(k)
  \/ \E t \in 1..MaxTasks : CleanupLoop(t)
  \/ \E t \in 1..MaxTasks : CleanupEndResume(t)
  \/ StartCall
  \/ StartResume(TRUE)
  \/ Tick

SpecOverlap == Init /\ [][NextOverlap]_vars

\* SpecTouch: one session; sends of no chunk or one chunk, which the transport
\* accepts or refuses, and inbound replies, while the clock advances.
NextTouch ==
  \/ CreateSession(1, FirstChat)
  \/ \E call \in CallIds, message \in 0..1 : SendStart(1, call, message)
  \/ \E p \in 1..MaxSends : TransportDeliver(p, 1)
  \/ \E p \in 1..MaxSends : TransportFail(p)
  \/ \E p \in 1..MaxSends : SendResume(p)
  \/ \E reply_to \in 0..1 : UserReply(FirstChat, reply_to)
  \/ \E t \in 1..MaxTasks : PollLoop(t)
  \/ \E t \in 1..MaxTasks : PollFetch(t, TRUE)
  \/ \E t \in 1..MaxTasks : PollHandle(t)
  \/ StartCall
  \/ StartResume(TRUE)
  \/ Tick

SpecTouch == Init /\ [][NextTouch]_vars

\* SpecReply: two session ids, possibly in the same chat; sends for one of them
\* and inbound messages handled by the polling task while time passes.
NextReply ==
  \/ \E sid \in SessionIds, chat \in ChatIds : CreateSession(sid, chat)
  \/ \E call \in CallIds : SendStart(NumSessionIds, call, 1)
  \/ \E p \in 1..MaxSends : TransportDeliver(p, 1)
  \/ \E p \in 1..MaxSends : SendResume(p)
  \/ \E chat \in ChatIds, reply_to \in 0..1 : UserReply(chat, reply_to)
  \/ \E t \in 1..MaxTasks : PollLoop(t)
  \/ \E t \in 1..MaxTasks : PollFetch(t, TRUE)
  \/ \E t \in 1..MaxTasks : PollHandle(t)
  \/ StartCall
  \/ StartResume(TRUE)
  \/ Tick

SpecReply == Init /\ [][NextReply]_vars

\* SpecSend: one session id; messages of every length up to MaxChunks chunks.
NextSend ==
  \/ CreateSession(1, FirstChat)
  \/ EndSessionCall(1)
  \/ \E call \in CallIds, message \in Messages : SendStart(1, call, message)
  \/ \E p \in 1..MaxSends : TransportDeliver(p, MaxMsgs)
  \/ \E p \in 1..MaxSends : TransportFail(p)
  \/ \E p \in 1..MaxSends : SendResume(p)
  \/ \E p \in 1..MaxSends : SendWake(p)

SpecSend == Init /\ [][NextSend]_vars

\* SpecLimiter: NumCallers tasks call acquire() over and over while time passes.
NextLimiter ==
  \/ \E c \in Callers : Acquire(c)
  \/ \E c \in Callers : Enter(c)
  \/ \E c \in Callers : Prune(c)
  \/ \E c \in Callers : Check(c)
  \/ \E c \in Callers : Admit(c)
  \/ ClockTick

InitLimiter == BridgeIdle /\ LimiterInit /\ ChunkerIdle

SpecLimiter == InitLimiter /\ [][NextLimiter]_vars

(***************************************************************************)
(* SpecSendMessage: each of NumCallers tasks calls send_message once while *)
(* time passes.  The event loop runs a task that can run, and time goes    *)
(* on: weak fairness of every step of a call and of the clock.             *)
(***************************************************************************)
NextSendMessage ==
  \/ \E c \in Callers : SendMessage(c)
  \/ \E c \in Callers : Enter(c)
  \/ \E c \in Callers : Prune(c)
  \/ \E c \in Callers : Check(c)
  \/ \E c \in Callers : Admit(c)
  \/ \E c \in Callers : SendMessageSleep(c)
  \/ \E c \in Callers : SendMessageRetry(c)
  \/ \E c \in Callers : SendMessagePost(c)
  \/ ClockTick

SpecSendMessage ==
  /\ InitLimiter
  /\ [][NextSendMessage]_vars
  /\ \A c \in Callers :
       /\ WF_vars(Enter(c))
       /\ WF_vars(Prune(c))
       /\ WF_vars(Check(c))
       /\ WF_vars(Admit(c))
       /\ WF_vars(SendMessageSleep(c))
       /\ WF_vars(SendMessageRetry(c))
       /\ WF_vars(SendMessagePost(c))
  /\ WF_vars(ClockTick)

\* SpecRace: one session id, created only while it is not active; sends of one
\* or two chunks are suspended in the transport or between chunks while
\* end_session and stop run.
NextRace ==
  \/ 1 \notin Keys(active_sessions) /\ CreateSession(1, FirstChat)
  \/ EndSessionCall(1)
  \/ \E k \in 1..MaxEnds : EndSessionResume(k)
  \/ \E call \in CallIds, message \in 1..2 : SendStart(1, call, message)
  \/ \E p \in 1..MaxSends : TransportDeliver(p, 2)
  \/ \E p \in 1..MaxSends : TransportFail(p)
  \/ \E p \in 1..MaxSends : SendResume(p)
  \/ \E p \in 1..MaxSends : SendWake(p)
  \/ StartCall
  \/ StartResume(TRUE)
  \/ Stop

SpecRace == Init /\ [][NextRace]_vars

\* SpecStart: start() and stop() are called one after the other, in any
\* order and any number of times, while the tasks that start() created run.
NextStart ==
  \/ StartCall
  \/ \E success \in BOOLEAN : StartResumeUpTo(success, MaxStarted)
  \/ Stop
  \/ \E t \in 1..MaxStarted : PollLoop(t)
  \/ \E t \in 1..MaxStarted, success \in BOOLEAN : PollFetch(t, success)
  \/ \E t \in 1..MaxStarted : CleanupLoop(t)

SpecStart == Init /\ [][NextStart]_vars

\* SpecStore: one session whose chat receives up to MaxStored messages; the
\* polling task stores them while callers read and clear the stored reply
\* and the session is ended by a caller, by the sweep or by stop().
NextStore ==
  \/ CreateSession(1, FirstChat)
  \/ EndSessionCall(1)
  \/ \E k \in 1..MaxEnds : EndSessionResume(k)
  \/ UserReplyUpTo(FirstChat, 0, MaxStored)
  \/ \E t \in 1..MaxTasks : PollLoop(t)
  \/ \E t \in 1..MaxTasks : PollFetch(t, TRUE)
  \/ \E t \in 1..MaxTasks : PollHandle(t)
  \/ GetPendingFeedback(1)
  \/ ClearPendingFeedback(1)
  \/ \E t \in 1..MaxTasks : CleanupLoop(t)
  \/ \E t \in 1..MaxTasks : CleanupEndResume(t)
  \/ StartCall
  \/ StartResume(TRUE)
  \/ Stop
  \/ Tick

SpecStore == Init /\ [][NextStore]_vars

\* SpecSweep: the cleanup sweep against create_session, end_session of one id,
\* start and stop, with the cleanup task scheduled fairly: a task of the event
\* loop that can run is run, and its transport request or sleep ends.
NextSweep ==
  \/ \E sid \in SessionIds : CreateSession(sid, FirstChat)
  \/ EndSessionCall(1)
  \/ \E k \in 1..MaxEnds : EndSessionResume(k)
  \/ \E t \in 1..MaxTasks : CleanupLoop(t)
  \/ \E t \in 1..MaxTasks : CleanupEndResume(t)
  \/ StartCall
  \/ \E success \in BOOLEAN : StartResume(success)
  \/ Stop
  \/ Tick

SpecSweep ==
  /\ Init
  /\ [][NextSweep]_vars
  /\ WF_vars(\E t \in 1..MaxTasks : CleanupLoop(t))
  /\ WF_vars(\E t \in 1..MaxTasks : CleanupEndResume(t))

(***************************************************************************)
(* SpecLife: the bridge is started and stopped while both background tasks *)
(* run.  The event loop resumes a task whose poll, notification or sleep   *)
(* has returned, hence the weak fairness of the tasks' steps; callers are  *)
(* under no obligation.                                                    *)
(***************************************************************************)
NextLife ==
  \/ CreateSession(1, FirstChat)
  \/ UserReply(FirstChat, 0)
  \/ \E t \in 1..MaxTasks : PollLoop(t)
  \/ \E t \in 1..MaxTasks, success \in BOOLEAN : PollFetch(t, success)
  \/ \E t \in 1..MaxTasks : PollHandle(t)
  \/ \E t \in 1..MaxTasks : CleanupLoop(t)
  \/ \E t \in 1..MaxTasks : CleanupEndResume(t)
  \/ StartCall
  \/ \E success \in BOOLEAN : StartResume(success)
  \/ Stop
  \/ Tick

SpecLife ==
  /\ Init
  /\ [][NextLife]_vars
  /\ WF_vars(\E t \in 1..MaxTasks : PollLoop(t))
  /\ WF_vars(\E t \in 1..MaxTasks, success \in BOOLEAN : PollFetch(t, success))
  /\ WF_vars(\E t \in 1..MaxTasks : PollHandle(t))
  /\ WF_vars(\E t \in 1..MaxTasks : CleanupLoop(t))
  /\ WF_vars(\E t \in 1..MaxTasks : CleanupEndResume(t))

(***************************************************************************)
(* The specifications of the chunker: a text and a configuration are       *)
(* chosen, then one function is called.                                    *)
(***************************************************************************)
\* SpecChunk: short plain texts with sentence ends, blanks and newlines.
InitChunk ==
  /\ BridgeIdle /\ LimiterIdle
  /\ content \in Texts({"a", ".", " ", "\n"}, MaxTextLen)
  /\ max_chunk_size \in 1..MaxSize
  /\ preserve_code_blocks = TRUE
  /\ called = "none"
  /\ returned = <<>>

SpecChunk == InitChunk /\ [][ChunkMessage \/ ChunkByCharacters \/ InsertSummary]_vars

\* SpecCode: texts of fences, code characters and newlines.
InitCode ==
  /\ BridgeIdle /\ LimiterIdle
  /\ content \in TextsOfPieces({Fence, <<"a">>, <<"\n">>}, MaxPieces)
  /\ max_chunk_size \in MinCodeSize..MaxCodeSize
  /\ preserve_code_blocks = TRUE
  /\ called = "none"
  /\ returned = <<>>

SpecCode == InitCode /\ [][ChunkMessage \/ ChunkLargeCodeBlock]_vars

\* SpecDetect: texts with bullets, table bars, brackets and fences.
InitDetect ==
  /\ BridgeIdle /\ LimiterIdle
  /\ content \in TextsOfPieces({Fence, <<"-">>, <<" ">>, <<"\n">>, <<"a">>, <<"|">>,
                               <<"[">>, <<"]">>}, MaxDetectLen)
  /\ max_chunk_size = 1
  /\ preserve_code_blocks = TRUE
  /\ called = "none"
  /\ returned = <<>>

SpecDetect == InitDetect /\ [][DetectContentType]_vars

\* SpecDecorate: one long word, sent through a chunker of DecorSize.
InitDecorate ==
  /\ BridgeIdle /\ LimiterIdle
  /\ content \in {[k \in 1..n |-> "a"] : n \in 0..MaxRun}
  /\ max_chunk_size = DecorSize
  /\ preserve_code_blocks = TRUE
  /\ called = "none"
  /\ returned = <<>>

SpecDecorate == InitDecorate /\ [][ChunkMessage \/ ToTelegramMessages]_vars

(***************************************************************************)
(* Properties.                                                             *)
(***************************************************************************)

\* C1: in every reachable state the number of entries of active_sessions is
\* at most max_concurrent_sessions.
SessionCap == Len(active_sessions) <= max_concurrent_sessions

\* A create_session has just filled the last free place of the largest cap.
SessionCapReached ==
  /\ max_concurrent_sessions = MaxCap
  /\ Len(active_sessions) = MaxCap
  /\ ev.op = "create_session"
  /\ ev.ok

\* C2: a create_session that finds active_sessions holding
\* max_concurrent_sessions entries returns False, sends nothing, and leaves
\* active_sessions (and every session object), message_correlation and
\* pending_feedback as they were.
CreateAtCapRejected ==
  [][(/\ Len(active_sessions) >= max_concurrent_sessions
      /\ \E sid \in SessionIds, chat \in ChatIds : CreateSession(sid, chat))
     => /\ ev'.ok = FALSE
        /\ ev'.req = FALSE
        /\ UNCHANGED <<active_sessions, heap, message_correlation, pending_feedback,
                       sends, tg_next>>]_vars

\* A create_session was rejected at the cap while the bridge was connected and
\* held a correlation entry and pending feedback.
CreateAtCapSeen ==
  /\ ev.op = "create_session"
  /\ ~ev.ok
  /\ Len(active_sessions) = max_concurrent_sessions
  /\ status = "connected"
  /\ DOMAIN message_correlation # {}
  /\ DOMAIN pending_feedback # {}

\* C3: create_session with a session id already in active_sessions returns
\* False and leaves the existing session object (chat_id, start_time,
\* last_activity, active_mcp_calls) unchanged.
CreateDuplicateRejected ==
  [][\A sid \in SessionIds, chat \in ChatIds :
       (sid \in Keys(active_sessions) /\ CreateSession(sid, chat))
       => /\ ev'.ok = FALSE
          /\ sid \in Keys(active_sessions')
          /\ heap'[Get(active_sessions', sid)] = heap[Get(active_sessions, sid)]]_vars

\* C4: when end_session(s) returns True and no send for s is in flight, s is
\* absent from active_sessions, pending_feedback has no entry for s, and
\* message_correlation has no entry whose call id is in the active_mcp_calls
\* of the session that was ended.
EndSessionClean ==
  [][\A sid \in SessionIds :
       (/\ ev'.op = "end_session" /\ ev'.ok /\ ev'.sid = sid
        /\ sid \in Keys(active_sessions)
        /\ \A p \in DOMAIN sends' : sends'[p].session_id # sid)
       => /\ sid \notin Keys(active_sessions')
          /\ sid \notin DOMAIN pending_feedback'
          /\ \A m \in DOMAIN message_correlation' :
               message_correlation'[m] \notin
                 heap[Get(active_sessions, sid)].active_mcp_calls]_vars

\* C5: a session object the sweep found with last_activity more than
\* session_timeout_minutes in the past is absent from active_sessions when
\* that sweep iteration is over; and while the bridge runs, a session that is
\* expired is eventually no longer in active_sessions.
SessionExpired(sid) ==
  /\ sid \in Keys(active_sessions)
  /\ now - heap[Get(active_sessions, sid)].last_activity > session_timeout_minutes

SweepEvicts ==
  /\ [](\A t \in DOMAIN cleaners :
          cleaners[t].pc = "ready"
          => \A k \in DOMAIN cleaners[t].scanned :
               cleaners[t].scanned[k] \notin Refs(active_sessions))
  /\ \A sid \in SessionIds :
       (is_running /\ SessionExpired(sid)) ~> (~is_running \/ ~SessionExpired(sid))

\* A sweep that found all MaxCap sessions expired, suspended in a notification
\* and has finished its iteration, while the bridge is running.
SweepEvictsSeen ==
  /\ is_running
  /\ ev.op = "sweep_done"
  /\ \E t \in DOMAIN cleaners :
       /\ cleaners[t].pc = "ready"
       /\ Len(cleaners[t].scanned) = MaxCap
  /\ Len(ev.ids) = 1
  /\ Len(active_sessions) = 0

\* C6: within one send call the chunks handed to the transport so far are a
\* prefix of the chunk list, in list order, and when chunk i+1 has been handed
\* over the correlation entries of chunks 1..i have been written, each under
\* the transport id of its chunk.
ChunksInOrder ==
  \A p \in DOMAIN sends :
    LET s == sends[p] IN
    /\ s.handed = SubSeq(s.chunks, 1, Len(s.handed))
    /\ Len(s.handed) = s.pos
    /\ Len(s.written) >= s.pos - 1
    /\ \A i \in 1..(s.pos - 1) : s.written[i] = <<s.ids[i], ChunkCallId(s.call, i)>>

\* The last of 1 + MaxChunks chunks (summary first) is at the transport.
ChunksInOrderSeen ==
  \E p \in DOMAIN sends :
    /\ sends[p].pc = "inflight"
    /\ sends[p].pos = MaxChunks + 1
    /\ sends[p].handed[1] = -1
    /\ Len(sends[p].written) = MaxChunks

\* C7: when handle_telegram_response handles a reply to the transport id of
\* a chunk the transport has delivered, the send that delivered the chunk has
\* already written the chunk's correlation entry.
ReplyAfterCorrelation ==
  (ev.op = "handle_telegram_response" /\ ev.ok)
  => LET m == updates[ev.ids[1]].reply_to
     IN m # 0 => \A p \in DOMAIN sends : ~(sends[p].pc = "resp" /\ sends[p].result = m)

\* C8: when a send of K chunks ends with K transport ids (and nothing removed
\* the entries of its earlier chunks meanwhile), message_correlation maps the
\* i-th transport id to the call id suffixed with the chunk_index of the i-th
\* chunk sent.
CorrelationByChunkIndex ==
  [][\A p \in DOMAIN sends :
       (/\ sends[p].pc = "resp"
        /\ ev'.op = "send" /\ ev'.ok
        /\ ev'.ids = Append(sends[p].ids, sends[p].result)
        /\ Len(ev'.ids) = Len(sends[p].chunks)
        /\ \A i \in DOMAIN sends[p].ids : sends[p].ids[i] \in DOMAIN message_correlation)
       => \A i \in 1..Len(ev'.ids) :
            /\ ev'.ids[i] \in DOMAIN message_correlation'
            /\ message_correlation'[ev'.ids[i]] = <<sends[p].call, sends[p].chunks[i]>>]_vars

\* C9: the acquire() calls that returned True with a timestamp in a window
\* (t - time_window, t] (time_window seconds, t in ticks) are at most
\* max_requests, for every t.
RECURSIVE AdmittedIn(_, _)
AdmittedIn(lo, hi) ==
  IF hi < lo THEN 0
  ELSE (IF lo \in DOMAIN admitted THEN admitted[lo] ELSE 0) + AdmittedIn(lo + 1, hi)

SlidingWindow ==
  \A t \in 0..MaxClock :
    AdmittedIn(t - time_window * TicksPerSecond + 1, t) <= max_requests

\* With the largest ceiling and window: a call was refused, and more calls
\* than the ceiling were admitted overall, the latest window being full.
SlidingWindowSeen ==
  /\ max_requests = MaxRequests
  /\ time_window = MaxWindow
  /\ \E c \in Callers : callers[c].ret = "false"
  /\ AdmittedIn(0, MaxClock) > max_requests
  /\ AdmittedIn(clock - time_window * TicksPerSecond + 1, clock) = max_requests

\* C10: at most one caller is between taking the lock and returning, and
\* requests never holds more than max_requests entries.
AcquireExclusive ==
  /\ Cardinality({c \in Callers : callers[c].pc \in {"locked", "pruned", "append"}}) <= 1
  /\ Len(requests) <= max_requests

\* One caller is about to append the last admissible timestamp while every
\* other caller waits for the lock.
AcquireExclusiveSeen ==
  /\ max_requests = MaxRequests
  /\ Len(requests) = max_requests - 1
  /\ \E c \in Callers :
       /\ callers[c].pc = "append"
       /\ \A d \in Callers \ {c} : callers[d].pc = "waiting"

\* C11: a caller whose acquire() returned False gets from get_retry_after(),
\* evaluated at that moment, a value v with 0 < v <= time_window; and
\* get_retry_after() is 0 when no timestamp is tracked.
RetryAfterPositive ==
  /\ \A c \in Callers :
       callers[c].ret = "false"
       => (0 < callers[c].retry /\ callers[c].retry <= time_window)
  /\ get_retry_after(<<>>, clock, time_window) = 0

\* C12: send_mcp_message_to_telegram for a session id that is not in
\* active_sessions returns None, hands nothing to the transport, adds no
\* correlation entry and changes no session.
SendAbsentSession ==
  [][\A sid \in SessionIds, call \in CallIds, message \in Messages :
       (sid \notin Keys(active_sessions) /\ SendStart(sid, call, message))
       => /\ ev'.ok = FALSE
          /\ ev'.ids = None
          /\ ev'.req = FALSE
          /\ UNCHANGED <<active_sessions, heap, message_correlation, sends, tg_next>>]_vars

\* A send was refused for a session that is gone while a correlation entry of
\* an earlier send is still there.
SendAbsentSessionSeen ==
  /\ ev.op = "send_refused"
  /\ ev.sid \notin Keys(active_sessions)
  /\ DOMAIN message_correlation # {}

SessionsOfChat(u) ==
  {k \in DOMAIN active_sessions : heap[active_sessions[k].ref].chat_id = updates[u].chat}

CorrelatedCall(u) ==
  IF updates[u].reply_to \in DOMAIN message_correlation
  THEN message_correlation[updates[u].reply_to] ELSE None

\* C14: handle_telegram_response for a message whose chat id is the chat id
\* of an active session returns True, stores the reply in pending_feedback
\* under that session's id with mcp_call_id = message_correlation[reply-to id]
\* (None when there is no such entry) and sets that session's last_activity
\* to now.  Stated for the session the reply is addressed to: the one whose
\* active_mcp_calls holds the call id of the message replied to.
ReplyStoredForSession ==
  [][\A t \in 1..MaxTasks :
       PollHandle(t)
       => LET u == Head(pollers[t].batch) IN
          \A k \in SessionsOfChat(u) :
            CorrelatedCall(u) \in heap[active_sessions[k].ref].active_mcp_calls
            => LET sid == active_sessions[k].session_id IN
               /\ ev'.ok
               /\ sid \in DOMAIN pending_feedback'
               /\ pending_feedback'[sid] = [mcp_call_id |-> CorrelatedCall(u), update |-> u]
               /\ heap'[active_sessions'[k].ref].last_activity = now]_vars

\* C14 as the code decides it: the reply is stored for the first session, in
\* insertion order, whose chat id matches.
ReplyStoredForFirstSession ==
  [][\A t \in 1..MaxTasks :
       PollHandle(t)
       => LET u == Head(pollers[t].batch) IN
          \A k \in SessionsOfChat(u) :
            (\A j \in SessionsOfChat(u) : k <= j)
            => LET sid == active_sessions[k].session_id IN
               /\ ev'.ok /\ ev'.sid = sid
               /\ sid \in DOMAIN pending_feedback'
               /\ pending_feedback'[sid] = [mcp_call_id |-> CorrelatedCall(u), update |-> u]
               /\ heap'[active_sessions'[k].ref].last_activity = now]_vars

\* C15: handle_telegram_response for a message whose chat id matches no
\* active session returns False and leaves active_sessions (and every session
\* object), message_correlation and pending_feedback unchanged.
ReplyWithoutSession ==
  [][\A t \in 1..MaxTasks :
       (PollHandle(t) /\ SessionsOfChat(Head(pollers[t].batch)) = {})
       => /\ ev'.ok = FALSE
          /\ UNCHANGED <<active_sessions, heap, message_correlation, pending_feedback>>]_vars

\* A message for a chat without session was refused while a session of
\* another chat, a correlation entry and pending feedback were there.
ReplyWithoutSessionSeen ==
  /\ ev.op = "handle_telegram_response"
  /\ ~ev.ok
  /\ SessionsOfChat(ev.ids[1]) = {}
  /\ active_sessions # <<>>
  /\ DOMAIN message_correlation # {}
  /\ DOMAIN pending_feedback # {}

\* C16: operations on a session id that is not active fail cleanly:
\* end_session returns False and changes nothing, get_pending_feedback
\* returns None; and of end_session calls for one session that overlap, the
\* one that resumes after the session has left active_sessions returns False
\* and leaves every session as it is.
InactiveIdFailsCleanly ==
  [][/\ \A sid \in SessionIds :
          (sid \notin Keys(active_sessions) /\ EndSessionCall(sid))
          => /\ ev'.op = "end_session" /\ ev'.ok = FALSE
             /\ UNCHANGED <<active_sessions, heap, message_correlation, pending_feedback>>
     /\ \A sid \in SessionIds :
          sid \notin Keys(active_sessions')
          => get_pending_feedback(pending_feedback', sid) = None
     /\ \A k \in 1..MaxEnds :
          (EndSessionResume(k) /\ ends[k].ref \notin Refs(active_sessions))
          => /\ ev'.ok = FALSE
             /\ UNCHANGED <<active_sessions, message_correlation, pending_feedback>>]_vars


\* C17: a start() whose connection test fails (or raises) returns False and
\* sets status to ERROR; that call appends no polling task and no cleanup task
\* and leaves is_running as it was.
StartFailure ==
  [][StartResume(FALSE)
     => /\ ev'.op = "start" /\ ev'.ok = FALSE
        /\ status' = "error"
        /\ UNCHANGED <<is_running, pollers, cleaners>>]_vars

\* A failed start() has returned on a bridge that a previous start() left
\* running: status is ERROR with both tasks of the previous start() alive.
StartFailureSeen ==
  /\ ev.op = "start" /\ ev.ok = FALSE
  /\ status = "error"
  /\ is_running /\ pollers # <<>> /\ cleaners # <<>>


\* C18: over start() and stop() calls made one after another (no stop() while
\* a start() is suspended in its connection test) the status only moves
\* DISCONNECTED -> CONNECTING, CONNECTING -> CONNECTED, CONNECTING -> ERROR
\* and CONNECTED -> DISCONNECTED; ERROR is left only through a new start(),
\* that is, towards CONNECTING.
StatusMoves ==
  [][(status' # status /\ (starting = 0 \/ starting' < starting))
     => <<status, status'>> \in {<<"disconnected", "connecting">>,
                                  <<"connecting", "connected">>,
                                  <<"connecting", "error">>,
                                  <<"connected", "disconnected">>,
                                  <<"error", "connecting">>}]_vars

\* C19: when stop() returns, is_running is False, status is DISCONNECTED, and
\* active_sessions, message_correlation and pending_feedback are empty.
StopClears ==
  [][Stop => /\ ~is_running'
             /\ status' = "disconnected"
             /\ active_sessions' = <<>>
             /\ DOMAIN message_correlation' = {}
             /\ DOMAIN pending_feedback' = {}]_vars

\* stop() has returned on a running bridge that held a session, a correlation
\* entry and a pending reply.
StopClearsSeen ==
  /\ ev.op = "stop"
  /\ \A i \in 1..3 : ev.ids[i] > 0
  /\ pollers # <<>>
  /\ ~is_running /\ status = "disconnected"
  /\ active_sessions = <<>>


\* C20: once the bridge is stopped (is_running is False) with no start() in
\* flight, either start() is called again or both the polling task and the
\* cleanup task eventually terminate.
TasksTerminate ==
  (~is_running /\ starting = 0) ~> ((pollers = <<>> /\ cleaners = <<>>) \/ starting > 0)

\* The last of the two tasks has left its loop after a stop().
TasksTerminateSeen ==
  /\ ev.op \in {"poll_exit", "cleanup_exit"}
  /\ ~is_running /\ starting = 0
  /\ pollers = <<>> /\ cleaners = <<>>


\* C21: every session object, active or still held by a suspended call, has
\* start_time <= last_activity <= now, and a step either leaves the
\* last_activity of the session registered under an id or raises it: with
\* the clock never going back, last_activity never decreases.
ActivityMonotone ==
  [][/\ now' >= now
     /\ \A r \in DOMAIN heap' :
          /\ heap'[r].start_time <= heap'[r].last_activity
          /\ heap'[r].last_activity <= now'
     /\ \A sid \in Keys(active_sessions) \cap Keys(active_sessions') :
          heap'[Get(active_sessions', sid)].last_activity
            >= heap[Get(active_sessions, sid)].last_activity]_vars

\* A session was refreshed after the clock advanced: its last_activity is
\* later than its start_time.
ActivityMonotoneSeen ==
  \E k \in DOMAIN active_sessions :
     /\ heap[active_sessions[k].ref].last_activity > heap[active_sessions[k].ref].start_time
     /\ ev.op \in {"send", "handle_telegram_response"}


\* C22: a send_mcp_message_to_telegram call that found its session leaves
\* that session's last_activity at the current time when it returns, also
\* when the content gave no chunk or the first transport send failed; so does
\* every inbound reply handled for a session.
TouchOnSendAndReply ==
  [][/\ \A call \in CallIds, message \in 0..1 :
          (SendStart(1, call, message) /\ ev'.op = "send_refused" /\ 1 \in Keys(active_sessions))
          => heap'[Get(active_sessions', 1)].last_activity = now'
     /\ \A p \in 1..MaxSends :
          (SendResume(p) /\ ev'.op = "send" /\ Get(active_sessions, 1) = sends[p].ref)
          => heap'[Get(active_sessions', 1)].last_activity = now'
     /\ \A t \in 1..MaxTasks :
          (PollHandle(t) /\ ev'.ok)
          => heap'[Get(active_sessions', ev'.sid)].last_activity = now']_vars


\* C23: for a text of at most max_chunk_size characters, the empty and the
\* whitespace-only text included, chunk_message without title returns exactly
\* one chunk, whose content is the text, with chunk_index 0, total_chunks 1,
\* no navigation line and no continuation marker.
SmallTextOneChunk ==
  (called = "chunk_message" /\ Len(content) <= max_chunk_size)
  => /\ Len(returned) = 1
     /\ returned[1].content = content
     /\ returned[1].chunk_index = 0
     /\ returned[1].total_chunks = 1
     /\ returned[1].navigation_info = None
     /\ returned[1].continuation_marker = None

\* The same for the texts that hold a character other than whitespace.
SmallVisibleTextOneChunk ==
  (called = "chunk_message" /\ Len(content) <= max_chunk_size /\ strip(content) # <<>>)
  => /\ Len(returned) = 1
     /\ returned[1].content = content
     /\ returned[1].chunk_index = 0
     /\ returned[1].total_chunks = 1
     /\ returned[1].navigation_info = None
     /\ returned[1].continuation_marker = None


\* C24: for a text that chunk_message splits into chunks (one that holds a
\* character other than whitespace), the contents of the returned chunks,
\* put one after the other in index order, are the text: nothing is added,
\* dropped or normalised.
Reassembly ==
  (called = "chunk_message" /\ returned # <<>>)
  => Concat([k \in DOMAIN returned |-> returned[k].content]) = content


\* C25: every message handed to the transport for a text, the decorated
\* chunks and the summary chunk alike, has at most max_chunk_size characters.
DecoratedWithinSize ==
  called = "to_telegram_message"
  => \A k \in DOMAIN returned : Len(returned[k]) <= max_chunk_size


\* The text holds a fence.
HoldsFence(text) == find(text, Fence, 1) # 0

\* The text holds exactly one fenced code block and no fence outside it, so
\* that a piece of the text with a fence holds part of that block.
OneFencedBlock(text) ==
  /\ Len(CodeBlockFindall(text)) = 1
  /\ \A i \in DOMAIN CodeBlockSplit(text) : ~HoldsFence(CodeBlockSplit(text)[i])

\* The text starts with an opening fence and ends with a closing fence.
CompleteFencedBlock(text) ==
  /\ Len(text) >= 2 * Len(Fence)
  /\ startswith(text, Fence)
  /\ endswith(text, Fence)

\* C26: with preserve_code_blocks true, every chunk of a batch of several
\* chunks returned by chunk_message that holds part of a fenced code block is
\* a complete fenced block: no chunk mixes surrounding text with a block.
CodeChunksAreBlocks ==
  (called = "chunk_message" /\ preserve_code_blocks /\ Len(returned) > 1
     /\ OneFencedBlock(content))
  => \A k \in DOMAIN returned :
       HoldsFence(returned[k].content) => CompleteFencedBlock(returned[k].content)


\* C27: the chunks of a batch of several chunks returned by chunk_message
\* carry the indexes 0..N-1 in list order and all carry total_chunks = N;
\* send puts exactly one summary chunk, of index -1, in front of the batch
\* when N > 3, and leaves the batch as it is otherwise.
IndexesAndSummary ==
  /\ [](called = "chunk_message" /\ Len(returned) > 1
        => \A k \in DOMAIN returned :
             /\ returned[k].chunk_index = k - 1
             /\ returned[k].total_chunks = Len(returned))
  /\ [][(called = "chunk_message" /\ called' = "insert_summary")
        => IF Len(returned) > 3
           THEN /\ Len(returned') = Len(returned) + 1
                /\ returned'[1].chunk_index = -1
                /\ Tail(returned') = returned
                /\ \A k \in DOMAIN returned : returned[k].chunk_index # -1
           ELSE returned' = returned]_vars

IndexesAndSummarySeen ==
  /\ called = "insert_summary"
  /\ Len(returned) = 5
  /\ returned[1].chunk_index = -1
  /\ returned[5].chunk_index = 3
  /\ returned[5].total_chunks = 4


\* The block has its opening fence (and language tag) on the first line, its
\* closing fence alone on the last line and internal lines between them.
FenceLines(code_block) ==
  LET lines == split(code_block, <<"\n">>)
  IN /\ Len(lines) >= 3
     /\ startswith(lines[1], Fence)
     /\ lines[Len(lines)] = Fence

\* The opening line of the block: the fence and the language tag.
OpeningLine(code_block) == split(code_block, <<"\n">>)[1] \o <<"\n">>

\* C28: a fenced block longer than max_chunk_size comes back from
\* _chunk_large_code_block as at least two chunks, each of which begins with
\* the opening fence and the language tag of the block and ends with a
\* closing fence.
LargeBlockSplit ==
  (called = "_chunk_large_code_block" /\ FenceLines(content))
  => /\ Len(returned) >= 2
     /\ \A k \in DOMAIN returned :
          /\ startswith(returned[k].content, OpeningLine(content))
          /\ endswith(returned[k].content, <<"\n">> \o Fence)


\* C29: _chunk_by_characters returns ceil(len(content) / max_chunk_size)
\* chunks, every one of at most max_chunk_size characters and every one but
\* the last of exactly max_chunk_size characters, whose contents put
\* together in order are the content.
CharacterChunks ==
  called = "_chunk_by_characters"
  => /\ Len(returned) = (Len(content) + max_chunk_size - 1) \div max_chunk_size
     /\ \A k \in DOMAIN returned :
          /\ Len(returned[k].content) <= max_chunk_size
          /\ k < Len(returned) => Len(returned[k].content) = max_chunk_size
          /\ returned[k].chunk_length = Len(returned[k].content)
     /\ Concat([k \in DOMAIN returned |-> returned[k].content]) = content

CharacterChunksSeen ==
  /\ called = "_chunk_by_characters"
  /\ max_chunk_size = 2
  /\ Len(content) = 5
  /\ Len(returned) = 3
  /\ Len(returned[3].content) = 1


\* Every line of the text is either empty or holds a visible character, so
\* that the non-empty lines and the non-blank lines are the same lines.
NoBlankButFilledLine(text) ==
  LET lines == split(text, <<"\n">>)
  IN \A i \in DOMAIN lines : lines[i] = <<>> \/ strip(lines[i]) # <<>>

\* C30: the classifier answers List exactly when the text holds no fenced
\* code block, is not a JSON object or array, and more than half of its
\* non-empty lines are bullet lines.
ListRule ==
  (called = "_detect_content_type" /\ NoBlankButFilledLine(content))
  => LET lines      == split(content, <<"\n">>)
         list_lines == Cardinality({i \in DOMAIN lines : BulletLine(lines[i])})
     IN returned = "list"
        <=> /\ CodeBlockSearch(content)[1] = 0
            /\ ~JsonLoads(strip(content))
            /\ ListShareOfNonEmpty(list_lines, lines)


\* The requests the limiter holds when the call is refused have left the
\* window before the clock of the model stops.
WindowEndsInTime == clock + time_window * TicksPerSecond <= MaxClock

\* C31: a send_message call that the rate limiter refused is admitted and
\* posts its request in the end, and no request is posted without an
\* acquire() that returned True for it.
DeniedSendIsSent ==
  /\ \A c \in Callers :
       (senders[c].pc = "sleep" /\ WindowEndsInTime) ~> (senders[c].pc = "post")
  /\ [](\A c \in Callers : senders[c].pc = "post" => callers[c].ret = "true")


\* C32: the content of every chunk returned by chunk_message, without its
\* decoration, has at most max_chunk_size characters.
ChunksWithinSize ==
  called = "chunk_message"
  => \A k \in DOMAIN returned : Len(returned[k].content) <= max_chunk_size


\* C33: every entry of message_correlation maps to a call id held in the
\* active_mcp_calls of a session that is in active_sessions.
CorrelationOfActiveSessions ==
  \A m \in DOMAIN message_correlation :
    \E k \in DOMAIN active_sessions :
      message_correlation[m] \in heap[active_sessions[k].ref].active_mcp_calls


\* The step is a step of the cleanup sweep that takes session sid, still the
\* session object the sweep looked at, out of active_sessions.
SweepRemoves(sid) ==
  /\ ev'.op \in {"sweep_done", "sweep_notify"}
  /\ sid \in Keys(active_sessions)
  /\ sid \notin Keys(active_sessions')
  /\ \A t \in DOMAIN cleaners :
       cleaners[t].pc = "ending" => Get(active_sessions, sid) = cleaners[t].end_ref

\* C34: the sweep takes a session out of active_sessions only at a moment
\* when the session is expired, and it does not discard the reply stored for
\* a session that is not expired.
SweepRemovesOnlyExpired ==
  [][\A sid \in SessionIds :
       /\ SweepRemoves(sid)
          => is_expired(heap[Get(active_sessions, sid)], now, session_timeout_minutes)
       /\ (/\ ev'.op \in {"sweep_done", "sweep_notify"}
           /\ sid \in Keys(active_sessions)
           /\ sid \in DOMAIN pending_feedback
           /\ ~is_expired(heap[Get(active_sessions, sid)], now, session_timeout_minutes))
          => sid \in DOMAIN pending_feedback']_vars


\* C35: at most one polling task and at most one cleanup task of the bridge
\* are alive.
OneTaskOfEachKind == Len(pollers) <= 1 /\ Len(cleaners) <= 1


\* C36: when the reply-to id of an inbound reply resolves through
\* message_correlation to a call id, handle_telegram_response picks, among
\* the active sessions of the reply's chat, the session whose
\* active_mcp_calls holds that call id, and stores the reply under its id.
ReplyStoredForCallOwner ==
  [][\A t \in 1..MaxTasks :
       PollHandle(t)
       => LET u == Head(pollers[t].batch) IN
          CorrelatedCall(u) # None
          => \A k \in SessionsOfChat(u) :
               CorrelatedCall(u) \in heap[active_sessions[k].ref].active_mcp_calls
               => /\ ev'.sid = active_sessions[k].session_id
                  /\ active_sessions[k].session_id \in DOMAIN pending_feedback'
                  /\ pending_feedback'[active_sessions[k].session_id].update = u]_vars


\* C37: the keys of pending_feedback are keys of active_sessions: a reply is
\* stored only for an active session and leaves with it.
FeedbackOfActiveSessions == DOMAIN pending_feedback \subseteq Keys(active_sessions)

\* stop() has removed a session together with the reply stored for it.
FeedbackOfActiveSessionsSeen ==
  /\ ev.op = "stop"
  /\ ev.ids[1] > 0
  /\ ev.ids[3] > 0
  /\ active_sessions = <<>>
  /\ pending_feedback = EmptyMap


\* C38: the reply stored for a session is what get_pending_feedback returns
\* for it after every step, until clear_pending_feedback is called for the
\* session or the session leaves active_sessions: reading it does not consume
\* it and a later reply does not replace it.
StoredReplyStays ==
  [][\A sid \in SessionIds :
       (/\ sid \in DOMAIN pending_feedback
        /\ ~(ev'.op = "clear_pending_feedback" /\ ev'.sid = sid)
        /\ sid \in Keys(active_sessions'))
       => get_pending_feedback(pending_feedback', sid) = pending_feedback[sid]]_vars


\* C39: an update is passed to handle_telegram_response at most once: an
\* update whose reply is stored in pending_feedback, and so has been handled,
\* is not handled again.
UpdateHandledOnce ==
  [][\A t \in 1..MaxTasks :
       PollHandle(t)
       => \A sid \in DOMAIN pending_feedback :
            pending_feedback[sid].update # Head(pollers[t].batch)]_vars

=============================================================================
